---- MODULE Spec2Model ----
(***************************************************************************)
(* Multi-agent delegation and domain gating: the outward agent registry    *)
(* of api_server.py, the AgentCallTool registry, the gated specialists'    *)
(* run / _is_query_relevant, and the cleanup protocol.                     *)
(*                                                                         *)
(* Texts are TLA+ strings; concatenation is \o, as Python's + on str.      *)
(* Objects live in `heap`; an object's identity is its index in `heap`.    *)
(***************************************************************************)
EXTENDS Naturals, Sequences, FiniteSets, TLC

VARIABLES
    heap,       \* every agent object constructed so far, in construction order
    agents,     \* api_server.agents: the outward registry, in insertion order
    call,       \* what the last handler was given, did and returned
    lookups,    \* per registry and type: the instance the last lookup returned
                \* since the last cleanup that touched the type (0: none)
    released,   \* the registry entries that cleanup removed
    workers     \* the position and the locals of each thread or coroutine
                \* that is inside a handler (<<>>: handlers taken whole)

vars == <<heap, agents, call, lookups, released, workers>>

(***************************************************************************)
(* Bounds of the model.                                                    *)
(***************************************************************************)
MaxInst == 3          \* objects constructed in one behaviour
MaxCleanups == 1      \* cleanup() invocations in one behaviour
MaxMessages == 3      \* messages held by all memories together before a run

(***************************************************************************)
(* Texts                                                                   *)
(***************************************************************************)
Whitespace == {" ", "\t", "\n", "\r", "\f"}

LowerCase == "abcdefghijklmnopqrstuvwxyz"
UpperCase == "ABCDEFGHIJKLMNOPQRSTUVWXYZ"

\* str.upper() on one character
UpperChar(c) ==
    IF \E i \in 1..Len(LowerCase) : SubSeq(LowerCase, i, i) = c
    THEN LET i == CHOOSE k \in 1..Len(LowerCase) : SubSeq(LowerCase, k, k) = c
         IN  SubSeq(UpperCase, i, i)
    ELSE c

RECURSIVE upper(_)
upper(s) ==
    IF Len(s) = 0 THEN ""
    ELSE UpperChar(SubSeq(s, 1, 1)) \o upper(SubSeq(s, 2, Len(s)))

RECURSIVE lstrip(_)
lstrip(s) ==
    IF Len(s) > 0 /\ SubSeq(s, 1, 1) \in Whitespace
    THEN lstrip(SubSeq(s, 2, Len(s)))
    ELSE s

RECURSIVE rstrip(_)
rstrip(s) ==
    IF Len(s) > 0 /\ SubSeq(s, Len(s), Len(s)) \in Whitespace
    THEN rstrip(SubSeq(s, 1, Len(s) - 1))
    ELSE s

\* str.strip()
strip(s) == rstrip(lstrip(s))

StartsWith(s, p) == Len(s) >= Len(p) /\ SubSeq(s, 1, Len(p)) = p
EndsWith(s, p) == Len(s) >= Len(p) /\ SubSeq(s, Len(s) - Len(p) + 1, Len(s)) = p

(***************************************************************************)
(* Messages and memory                                                     *)
(***************************************************************************)
user_message(content) == [role |-> "user", content |-> content]
assistant_message(content) == [role |-> "assistant", content |-> content]
add_message(memory, msg) == Append(memory, msg)

(***************************************************************************)
(* The agent classes                                                       *)
(***************************************************************************)
GatedClasses ==
    {"DataEngAgent", "ProductManagerAgent", "TechLeadAgent", "FinanceLeadAgent",
     "LawLeadAgent", "SEOLeadAgent", "MarketingLeadAgent", "HRLeadAgent"}

\* the fixed refusal string of each gated specialist's run
refusal_message(cls) ==
    CASE cls = "DataEngAgent" ->
           "I specialize in Data Engineering topics. This question seems outside my area of expertise."
      [] cls = "ProductManagerAgent" ->
           "I specialize in Product Management topics. This question seems outside my area of expertise."
      [] cls = "TechLeadAgent" ->
           "I specialize in Technical Leadership and deep Software Engineering topics. This question seems outside my area of expertise."
      [] cls = "FinanceLeadAgent" ->
           "I specialize in Finance and Financial Management topics. This question seems outside my area of expertise."
      [] cls = "LawLeadAgent" ->
           "I specialize in Law and Legal topics. This question seems outside my area of expertise."
      [] cls = "SEOLeadAgent" ->
           "I specialize in Search Engine Optimization (SEO) topics. This question seems outside my area of expertise."
      [] cls = "MarketingLeadAgent" ->
           "I specialize in Marketing topics. This question seems outside my area of expertise."
      [] cls = "HRLeadAgent" ->
           "I specialize in Human Resources topics. This question seems outside my area of expertise."

\* the classes whose run appends a text to the loop's response
PostprocessClasses == {"LawLeadAgent", "SEOLeadAgent", "MarketingLeadAgent", "HRLeadAgent"}

disclaimer(cls) ==
    CASE cls = "LawLeadAgent" ->
           "\n\nDisclaimer: This response is for informational purposes only and does not constitute legal advice. Please consult with a qualified legal professional for advice about your specific situation."
      [] cls = "SEOLeadAgent" ->
           "\n\nNote: SEO best practices and search engine algorithms evolve constantly. Always verify current guidelines and test strategies for your specific situation."
      [] cls = "MarketingLeadAgent" ->
           "\n\nNote: Marketing best practices and consumer behavior evolve constantly. Always test strategies and adapt them to your specific market and audience."
      [] cls = "HRLeadAgent" ->
           "\n\nNote: HR practices must comply with local labor laws and regulations. This response is for informational purposes only. Please consult with appropriate legal counsel or HR professionals for specific situations."

\* a gate that fails closed: an error of the completion call counts as NO
_is_query_relevant_fail_closed(gate) ==
    IF gate.raises
    THEN FALSE
    ELSE upper(strip(gate.content)) = "YES"

\* a gate that accepts every reply that begins with YES
_is_query_relevant_prefix(gate) ==
    IF gate.raises
    THEN TRUE
    ELSE StartsWith(upper(strip(gate.content)), "YES")

(***************************************************************************)
(* The relevance gate.  `gate` is what llm.chat_completion does on the     *)
(* classification call: [raises, content].                                 *)
(***************************************************************************)
_is_query_relevant(gate) ==
    IF gate.raises
    THEN TRUE
    ELSE upper(strip(gate.content)) = "YES"

\* DOMAIN_CHECK_PROMPT_TEMPLATE.format(query=query), without the paragraph
\* that names the domain of the class
check_prompt(query) ==
    "\nAnswer **only** with 'YES' or 'NO'.\n\nUser Query: " \o query \o "\n"

\* a relevance check that sends its prompt through the agent's memory
\* max_tokens=10 and temperature=0.0 of the completion call of the check
GateMaxTokens == 10
GateTemperature == 0

relevance_check_in_memory(memory, query, gate) ==
    [verdict  |-> _is_query_relevant(gate),
     messages |-> add_message(memory, user_message(check_prompt(query))),
     max_tokens |-> GateMaxTokens,
     temperature |-> GateTemperature,
     memory   |-> add_message(memory, user_message(check_prompt(query)))]

\* the call self._is_query_relevant(request) of an object with the given
\* memory: the verdict, the messages of the completion call and the memory
\* the object has afterwards
relevance_check(memory, query, gate) ==
    [verdict  |-> _is_query_relevant(gate),
     messages |-> <<user_message(check_prompt(query))>>,
     max_tokens |-> GateMaxTokens,
     temperature |-> GateTemperature,
     memory   |-> memory]

(***************************************************************************)
(* The inherited reasoning loop, ToolCallAgent.run: it takes the request   *)
(* into memory, runs `steps` think steps (a completion call each) and      *)
(* returns a text or raises.  `loop` is [raises, content, steps].          *)
(***************************************************************************)
super_run(memory, request, loop) ==
    [raised   |-> loop.raises,
     result   |-> IF loop.raises THEN "" ELSE loop.content,
     error    |-> IF loop.raises THEN loop.content ELSE "",
     llm_calls |-> loop.steps,
     memory   |-> IF loop.raises
                  THEN add_message(memory, user_message(request))
                  ELSE add_message(add_message(memory, user_message(request)),
                                   assistant_message(loop.content))]

\* a run whose refusal branch lacks its return: the refusal is recorded and
\* the loop runs all the same
specialist_run_no_return(cls, memory, request, gate, loop) ==
    LET is_relevant == _is_query_relevant(gate)
        refused == add_message(add_message(memory, user_message(request)),
                               assistant_message(refusal_message(cls)))
        response == super_run(IF is_relevant THEN memory ELSE refused, request, loop)
    IN  [verdict    |-> is_relevant,
         raised     |-> response.raised,
         error      |-> response.error,
         result     |-> IF response.raised THEN ""
                        ELSE IF cls \in PostprocessClasses
                             THEN response.result \o disclaimer(cls)
                             ELSE response.result,
         gate_calls |-> 1,
         llm_calls  |-> 1 + response.llm_calls,
         loop_calls |-> 1,
         loop_request |-> request,
         memory     |-> response.memory]

\* a run that returns the loop's response as it is, for every class
specialist_run_no_postprocess(cls, memory, request, gate, loop) ==
    LET is_relevant == _is_query_relevant(gate)
        response == super_run(memory, request, loop)
    IN  IF ~is_relevant
        THEN [verdict    |-> FALSE,
              raised     |-> FALSE,
              error      |-> "",
              result     |-> refusal_message(cls),
              gate_calls |-> 1,
              llm_calls  |-> 1,
              loop_calls |-> 0,
              loop_request |-> "",
              memory     |-> add_message(add_message(memory, user_message(request)),
                                assistant_message(refusal_message(cls)))]
        ELSE [verdict    |-> TRUE,
              raised     |-> response.raised,
              error      |-> response.error,
              result     |-> response.result,
              gate_calls |-> 1,
              llm_calls  |-> 1 + response.llm_calls,
              loop_calls |-> 1,
              loop_request |-> request,
              memory     |-> response.memory]

\* a run that catches an error of the loop and answers with the refusal
specialist_run_catches_loop_error(cls, memory, request, gate, loop) ==
    LET is_relevant == _is_query_relevant(gate)
        response == super_run(memory, request, loop)
        refuse == ~is_relevant \/ response.raised
    IN  [verdict    |-> is_relevant,
         raised     |-> FALSE,
         error      |-> "",
         result     |-> IF refuse THEN refusal_message(cls)
                        ELSE IF cls \in PostprocessClasses
                             THEN response.result \o disclaimer(cls)
                             ELSE response.result,
         gate_calls |-> 1,
         llm_calls  |-> IF is_relevant THEN 1 + response.llm_calls ELSE 1,
         loop_calls |-> IF is_relevant THEN 1 ELSE 0,
         loop_request |-> IF is_relevant THEN request ELSE "",
         memory     |-> IF is_relevant
                        THEN response.memory
                        ELSE add_message(add_message(memory, user_message(request)),
                                assistant_message(refusal_message(cls)))]

\* run with the refusal written to a memory started anew
run_after_gate_fresh_memory(cls, memory, request, is_relevant, loop) ==
    LET response == super_run(memory, request, loop)
    IN  IF ~is_relevant
        THEN [verdict    |-> FALSE,
              raised     |-> FALSE,
              error      |-> "",
              result     |-> refusal_message(cls),
              gate_calls |-> 1,
              llm_calls  |-> 1,
              loop_calls |-> 0,
              loop_request |-> "",
              memory     |-> <<user_message(request),
                               assistant_message(refusal_message(cls))>>]
        ELSE [verdict    |-> TRUE,
              raised     |-> response.raised,
              error      |-> response.error,
              result     |-> IF response.raised THEN ""
                             ELSE IF cls \in PostprocessClasses
                                  THEN response.result \o disclaimer(cls)
                                  ELSE response.result,
              gate_calls |-> 1,
              llm_calls  |-> 1 + response.llm_calls,
              loop_calls |-> 1,
              loop_request |-> request,
              memory     |-> response.memory]

\* run with the loop given the stripped request
run_after_gate_stripped_request(cls, memory, request, is_relevant, loop) ==
    LET response == super_run(memory, strip(request), loop)
    IN  IF ~is_relevant
        THEN [verdict    |-> FALSE,
              raised     |-> FALSE,
              error      |-> "",
              result     |-> refusal_message(cls),
              gate_calls |-> 1,
              llm_calls  |-> 1,
              loop_calls |-> 0,
              loop_request |-> "",
              memory     |-> add_message(add_message(memory, user_message(request)),
                                assistant_message(refusal_message(cls)))]
        ELSE [verdict    |-> TRUE,
              raised     |-> response.raised,
              error      |-> response.error,
              result     |-> IF response.raised THEN ""
                             ELSE IF cls \in PostprocessClasses
                                  THEN response.result \o disclaimer(cls)
                                  ELSE response.result,
              gate_calls |-> 1,
              llm_calls  |-> 1 + response.llm_calls,
              loop_calls |-> 1,
              loop_request |-> strip(request),
              memory     |-> response.memory]

(***************************************************************************)
(* run of a gated specialist on the object with class cls and the given    *)
(* memory.  The result records what the call did.                          *)
(***************************************************************************)
\* a refusal branch that records the refusal before the request
run_after_gate_refusal_first(cls, memory, request, is_relevant, loop) ==
    LET response == super_run(memory, request, loop)
    IN  IF ~is_relevant
        THEN [verdict    |-> FALSE,
              raised     |-> FALSE,
              error      |-> "",
              result     |-> refusal_message(cls),
              gate_calls |-> 1,
              llm_calls  |-> 1,
              loop_calls |-> 0,
              loop_request |-> "",
              memory     |-> add_message(add_message(memory,
                                assistant_message(refusal_message(cls))),
                                user_message(request))]
        ELSE [verdict    |-> TRUE,
              raised     |-> response.raised,
              error      |-> response.error,
              result     |-> IF response.raised THEN ""
                             ELSE IF cls \in PostprocessClasses
                                  THEN response.result \o disclaimer(cls)
                                  ELSE response.result,
              gate_calls |-> 1,
              llm_calls  |-> 1 + response.llm_calls,
              loop_calls |-> 1,
              loop_request |-> request,
              memory     |-> response.memory]

\* run from the line after the relevance check on: the refusal, or the loop
\* and what the class appends to its response
run_after_gate(cls, memory, request, is_relevant, loop) ==
    LET response == super_run(memory, request, loop)
    IN  IF ~is_relevant
        THEN [verdict    |-> FALSE,
              raised     |-> FALSE,
              error      |-> "",
              result     |-> refusal_message(cls),
              gate_calls |-> 1,
              llm_calls  |-> 1,
              loop_calls |-> 0,
              loop_request |-> "",
              memory     |-> add_message(add_message(memory, user_message(request)),
                                assistant_message(refusal_message(cls)))]
        ELSE [verdict    |-> TRUE,
              raised     |-> response.raised,
              error      |-> response.error,
              result     |-> IF response.raised THEN ""
                             ELSE IF cls \in PostprocessClasses
                                  THEN response.result \o disclaimer(cls)
                                  ELSE response.result,
              gate_calls |-> 1,
              llm_calls  |-> 1 + response.llm_calls,
              loop_calls |-> 1,
              loop_request |-> request,
              memory     |-> response.memory]

specialist_run(cls, memory, request, gate, loop) ==
    LET checked == relevance_check(memory, request, gate)
    IN  run_after_gate(cls, checked.memory, request, checked.verdict, loop)

(***************************************************************************)
(* Objects.  `tool` is the _agent_instances dict of the AgentCallTool in   *)
(* a Manus object's available_tools (empty and unused in other classes).   *)
(***************************************************************************)
new_agent(cls) == [cls |-> cls, cleanups |-> 0, memory |-> <<>>, tool |-> <<>>]

(***************************************************************************)
(* Python dicts, kept in insertion order: sequences of [type, inst]        *)
(***************************************************************************)
Has(d, k) == \E i \in 1..Len(d) : d[i].type = k
Get(d, k) == d[CHOOSE i \in 1..Len(d) : d[i].type = k].inst
Put(d, k, v) ==
    IF Has(d, k)
    THEN [i \in 1..Len(d) |-> IF d[i].type = k THEN [type |-> k, inst |-> v] ELSE d[i]]
    ELSE Append(d, [type |-> k, inst |-> v])
Del(d, k) == SelectSeq(d, LAMBDA e : e.type # k)
Keys(d) == {d[i].type : i \in 1..Len(d)}
Values(d) == {d[i].inst : i \in 1..Len(d)}

\* a test for None in place of the truth test: the empty text passes
Truthy_not_none(data, k) == k \in DOMAIN data

\* dict.get(key, default) on a request body; None is the record <<>>'s absence
HasKey(data, k) == k \in DOMAIN data
Truthy(data, k) == HasKey(data, k) /\ data[k] # ""

\* the types get_agent constructs, finance_lead forgotten
OutwardTypes_without_finance_lead ==
    {"manus", "mcp", "data_eng", "product_manager", "tech_lead",
     "law_lead", "seo_lead", "marketing_lead", "hr_lead"}

(***************************************************************************)
(* api_server.get_agent: the class constructed for each known type         *)
(***************************************************************************)
OutwardTypes ==
    {"manus", "mcp", "data_eng", "product_manager", "tech_lead", "finance_lead",
     "law_lead", "seo_lead", "marketing_lead", "hr_lead"}

\* a dispatch whose finance_lead branch constructs the law specialist
OutwardClass_finance_as_law(agent_type) ==
    CASE agent_type = "manus" -> "Manus"
      [] agent_type = "mcp" -> "MCPAgent"
      [] agent_type = "data_eng" -> "DataEngAgent"
      [] agent_type = "product_manager" -> "ProductManagerAgent"
      [] agent_type = "tech_lead" -> "TechLeadAgent"
      [] agent_type = "finance_lead" -> "LawLeadAgent"
      [] agent_type = "law_lead" -> "LawLeadAgent"
      [] agent_type = "seo_lead" -> "SEOLeadAgent"
      [] agent_type = "marketing_lead" -> "MarketingLeadAgent"
      [] agent_type = "hr_lead" -> "HRLeadAgent"

OutwardClass(agent_type) ==
    CASE agent_type = "manus" -> "Manus"
      [] agent_type = "mcp" -> "MCPAgent"
      [] agent_type = "data_eng" -> "DataEngAgent"
      [] agent_type = "product_manager" -> "ProductManagerAgent"
      [] agent_type = "tech_lead" -> "TechLeadAgent"
      [] agent_type = "finance_lead" -> "FinanceLeadAgent"
      [] agent_type = "law_lead" -> "LawLeadAgent"
      [] agent_type = "seo_lead" -> "SEOLeadAgent"
      [] agent_type = "marketing_lead" -> "MarketingLeadAgent"
      [] agent_type = "hr_lead" -> "HRLeadAgent"

\* a get_agent without the membership test: every lookup of a known type
\* constructs and stores a new object
get_agent_always_constructs(h, d, agent_type) ==
    LET construct == agent_type \in OutwardTypes
        h2 == IF construct THEN Append(h, new_agent(OutwardClass(agent_type))) ELSE h
        d2 == IF construct THEN Put(d, agent_type, Len(h) + 1) ELSE d
    IN  [heap        |-> h2,
         agents      |-> d2,
         constructed |-> construct,
         raised      |-> ~Has(d2, agent_type),
         inst        |-> IF Has(d2, agent_type) THEN Get(d2, agent_type) ELSE 0]

\* get_agent on registry d and heap h: the new registry and heap, and the
\* instance returned (raised: the KeyError of agents[agent_type])
get_agent(h, d, agent_type) ==
    LET miss == ~Has(d, agent_type)
        construct == miss /\ agent_type \in OutwardTypes
        h2 == IF construct THEN Append(h, new_agent(OutwardClass(agent_type))) ELSE h
        d2 == IF construct THEN Put(d, agent_type, Len(h) + 1) ELSE d
    IN  [heap        |-> h2,
         agents      |-> d2,
         constructed |-> construct,
         raised      |-> ~Has(d2, agent_type),
         inst        |-> IF Has(d2, agent_type) THEN Get(d2, agent_type) ELSE 0]

(***************************************************************************)
(* AgentCallTool                                                           *)
(***************************************************************************)
\* an if/elif chain that lacks the hr_lead branch
ToolTypes_without_hr ==
    {"mcp", "data_eng", "product_manager", "tech_lead", "finance_lead",
     "law_lead", "seo_lead", "marketing_lead"}

ToolTypes ==
    {"mcp", "data_eng", "product_manager", "tech_lead", "finance_lead",
     "law_lead", "seo_lead", "marketing_lead", "hr_lead"}

_agent_descriptions ==
    [t \in ToolTypes |->
        CASE t = "mcp" -> "Browser Automation Specialist"
          [] t = "data_eng" -> "Data Engineering Expert"
          [] t = "product_manager" -> "Product Management Specialist"
          [] t = "tech_lead" -> "Technical Architecture Expert"
          [] t = "finance_lead" -> "Financial Analysis Specialist"
          [] t = "law_lead" -> "Legal Specialist"
          [] t = "seo_lead" -> "SEO Expert"
          [] t = "marketing_lead" -> "Marketing Specialist"
          [] t = "hr_lead" -> "Human Resources Specialist"]

\* the class _get_agent constructs for each type it knows
ToolClass(agent_type) ==
    CASE agent_type = "mcp" -> "MCPAgent"
      [] agent_type = "data_eng" -> "DataEngAgent"
      [] agent_type = "product_manager" -> "ProductManagerAgent"
      [] agent_type = "tech_lead" -> "TechLeadAgent"
      [] agent_type = "finance_lead" -> "FinanceLeadAgent"
      [] agent_type = "law_lead" -> "LawLeadAgent"
      [] agent_type = "seo_lead" -> "SEOLeadAgent"
      [] agent_type = "marketing_lead" -> "MarketingLeadAgent"
      [] agent_type = "hr_lead" -> "HRLeadAgent"

\* one dict of the class, kept by the first tool object, read by every tool
_agent_instances_of_class(h, m) == h[1].tool

\* the _agent_instances dict of the tool held by Manus object m
_agent_instances(h, m) == h[m].tool

\* a _get_agent whose else branch constructs the browser agent
_get_agent_default_mcp(h, m, agent_type) ==
    LET d == _agent_instances(h, m)
        miss == ~Has(d, agent_type)
        cls == IF agent_type \in ToolTypes THEN ToolClass(agent_type) ELSE "MCPAgent"
        h2 == IF miss THEN Append(h, new_agent(cls)) ELSE h
        d2 == IF miss THEN Put(d, agent_type, Len(h) + 1) ELSE d
    IN  [heap        |-> [h2 EXCEPT ![m].tool = d2],
         constructed |-> miss,
         raised      |-> FALSE,
         error       |-> "",
         inst        |-> Get(d2, agent_type)]

\* a _get_agent that takes an object of the wanted class from wherever one
\* exists before it constructs one
_get_agent_shared_pool(h, m, agent_type) ==
    LET d == _agent_instances(h, m)
        miss == ~Has(d, agent_type)
        known == agent_type \in ToolTypes
        pool == IF known THEN {i \in DOMAIN h : h[i].cls = ToolClass(agent_type)} ELSE {}
        reuse == miss /\ pool # {}
        construct == miss /\ known /\ pool = {}
        h2 == IF construct THEN Append(h, new_agent(ToolClass(agent_type))) ELSE h
        d2 == IF construct THEN Put(d, agent_type, Len(h) + 1)
              ELSE IF reuse THEN Put(d, agent_type, CHOOSE i \in pool : TRUE)
              ELSE d
    IN  [heap        |-> [h2 EXCEPT ![m].tool = d2],
         constructed |-> construct,
         raised      |-> miss /\ ~known,
         error       |-> IF miss /\ ~known
                         THEN "Unknown agent type: " \o agent_type ELSE "",
         inst        |-> IF Has(d2, agent_type) THEN Get(d2, agent_type) ELSE 0]

\* _get_agent emptying the registry when the type is unknown
_get_agent_resets_on_unknown(h, m, agent_type) ==
    LET d == _agent_instances(h, m)
        miss == ~Has(d, agent_type)
        construct == miss /\ agent_type \in ToolTypes
        h2 == IF construct THEN Append(h, new_agent(ToolClass(agent_type))) ELSE h
        d2 == IF construct THEN Put(d, agent_type, Len(h) + 1)
              ELSE IF miss THEN <<>> ELSE d
    IN  [heap        |-> [h2 EXCEPT ![m].tool = d2],
         constructed |-> construct,
         raised      |-> miss /\ ~construct,
         error       |-> IF miss /\ ~construct
                         THEN "Unknown agent type: " \o agent_type ELSE "",
         inst        |-> IF Has(d2, agent_type) THEN Get(d2, agent_type) ELSE 0]

\* AgentCallTool._get_agent on the tool of Manus object m
_get_agent(h, m, agent_type) ==
    LET d == _agent_instances(h, m)
        miss == ~Has(d, agent_type)
        construct == miss /\ agent_type \in ToolTypes
        h2 == IF construct THEN Append(h, new_agent(ToolClass(agent_type))) ELSE h
        d2 == IF construct THEN Put(d, agent_type, Len(h) + 1) ELSE d
    IN  [heap        |-> [h2 EXCEPT ![m].tool = d2],
         constructed |-> construct,
         raised      |-> miss /\ ~construct,
         error       |-> IF miss /\ ~construct
                         THEN "Unknown agent type: " \o agent_type ELSE "",
         inst        |-> IF Has(d2, agent_type) THEN Get(d2, agent_type) ELSE 0]

(***************************************************************************)
(* cleanup() of agent objects.  `fails` is the set of objects whose own    *)
(* cleanup raises when it is invoked.                                      *)
(***************************************************************************)
RECURSIVE agent_cleanup(_, _, _)

\* the loop without its try/except: the first cleanup that raises ends it
RECURSIVE cleanup_each_no_try(_, _, _)
cleanup_each_no_try(h, items, fails) ==
    IF items = <<>>
    THEN [heap |-> h, raised |-> FALSE]
    ELSE LET r == agent_cleanup(h, Head(items).inst, fails)
         IN  IF r.raised
             THEN [heap |-> r.heap, raised |-> TRUE]
             ELSE cleanup_each_no_try(r.heap, Tail(items), fails)

\* the for loop of AgentCallTool.cleanup: a cleanup that raises is caught and
\* logged inside the loop body, so the loop goes on to the next item
RECURSIVE cleanup_each(_, _, _)
cleanup_each(h, items, fails) ==
    IF items = <<>>
    THEN [heap |-> h, raised |-> FALSE]
    ELSE cleanup_each(agent_cleanup(h, Head(items).inst, fails).heap, Tail(items), fails)

\* AgentCallTool.cleanup on the tool of Manus object m: the loop over
\* list(self._agent_instances.items()), then self._agent_instances.clear()
AgentCallTool_cleanup(h, m, fails) ==
    LET r == cleanup_each(h, _agent_instances(h, m), fails)
    IN  IF r.raised
        THEN r
        ELSE [heap |-> [r.heap EXCEPT ![m].tool = <<>>], raised |-> FALSE]

\* cleanup() of object i.  Manus.cleanup closes the browser (where a failing
\* Manus raises) and then calls the parent cleanup, which cleans the tools,
\* AgentCallTool among them; the specialists' cleanup only calls the parent's.
agent_cleanup(h, i, fails) ==
    LET h1 == [h EXCEPT ![i].cleanups = @ + 1]
    IN  IF i \in fails
        THEN [heap |-> h1, raised |-> TRUE]
        ELSE IF h[i].cls = "Manus"
             THEN AgentCallTool_cleanup(h1, i, fails)
             ELSE [heap |-> h1, raised |-> FALSE]

\* the else branch of cleanup_agents: for agent_type, agent in list(agents.items())
RECURSIVE release_all(_, _, _, _)
release_all(h, d, items, fails) ==
    IF items = <<>>
    THEN [heap |-> h, agents |-> d, raised |-> FALSE]
    ELSE LET r == agent_cleanup(h, Head(items).inst, fails)
         IN  IF r.raised
             THEN [heap |-> r.heap, agents |-> d, raised |-> TRUE]
             ELSE release_all(r.heap, Del(d, Head(items).type), Tail(items), fails)

\* the endpoint taking a cleanup that raised for one that returned
cleanup_agents_swallows_error(h, d, data, fails) ==
    IF Truthy(data, "agent_type") /\ Has(d, data.agent_type)
    THEN LET r == agent_cleanup(h, Get(d, data.agent_type), fails)
         IN  [heap |-> r.heap, agents |-> Del(d, data.agent_type), raised |-> FALSE,
              status |-> "Agent " \o data.agent_type \o " cleaned up"]
    ELSE LET r == release_all(h, d, d, fails)
         IN  [heap |-> r.heap, agents |-> r.agents, raised |-> r.raised,
              status |-> IF r.raised THEN "" ELSE "All agents cleaned up"]

\* the endpoint with the entry deleted before the cleanup is awaited
cleanup_agents_del_first(h, d, data, fails) ==
    IF Truthy(data, "agent_type") /\ Has(d, data.agent_type)
    THEN LET r == agent_cleanup(h, Get(d, data.agent_type), fails)
         IN  IF r.raised
             THEN [heap |-> r.heap, agents |-> Del(d, data.agent_type),
                   raised |-> TRUE, status |-> ""]
             ELSE [heap |-> r.heap, agents |-> Del(d, data.agent_type), raised |-> FALSE,
                   status |-> "Agent " \o data.agent_type \o " cleaned up"]
    ELSE LET r == release_all(h, d, d, fails)
         IN  [heap |-> r.heap, agents |-> r.agents, raised |-> r.raised,
              status |-> IF r.raised THEN "" ELSE "All agents cleaned up"]

\* a cleanup_agents whose first branch cleans the agent up and leaves its
\* entry in the registry
cleanup_agents_keeps_entry(h, d, data, fails) ==
    IF Truthy(data, "agent_type") /\ Has(d, data.agent_type)
    THEN LET r == agent_cleanup(h, Get(d, data.agent_type), fails)
         IN  IF r.raised
             THEN [heap |-> r.heap, agents |-> d, raised |-> TRUE, status |-> ""]
             ELSE [heap |-> r.heap, agents |-> d, raised |-> FALSE,
                   status |-> "Agent " \o data.agent_type \o " cleaned up"]
    ELSE LET r == release_all(h, d, d, fails)
         IN  [heap |-> r.heap, agents |-> r.agents, raised |-> r.raised,
              status |-> IF r.raised THEN "" ELSE "All agents cleaned up"]

\* the body of cleanup_agents for the request body `data`
cleanup_agents(h, d, data, fails) ==
    IF Truthy(data, "agent_type") /\ Has(d, data.agent_type)
    THEN LET r == agent_cleanup(h, Get(d, data.agent_type), fails)
         IN  IF r.raised
             THEN [heap |-> r.heap, agents |-> d, raised |-> TRUE, status |-> ""]
             ELSE [heap |-> r.heap, agents |-> Del(d, data.agent_type), raised |-> FALSE,
                   status |-> "Agent " \o data.agent_type \o " cleaned up"]
    ELSE LET r == release_all(h, d, d, fails)
         IN  [heap |-> r.heap, agents |-> r.agents, raised |-> r.raised,
              status |-> IF r.raised THEN "" ELSE "All agents cleaned up"]

(***************************************************************************)
(* run of any agent object                                                 *)
(***************************************************************************)
NoGate == [raises |-> FALSE, content |-> ""]
NoLoop == [raises |-> FALSE, content |-> "", steps |-> 0]

\* Manus.run (and MCPAgent's): no gate, the inherited loop
generalist_run(memory, request, loop) ==
    LET response == super_run(memory, request, loop)
    IN  [verdict    |-> TRUE,
         raised     |-> response.raised,
         error      |-> response.error,
         result     |-> response.result,
         gate_calls |-> 0,
         llm_calls  |-> response.llm_calls,
         loop_calls |-> 1,
         loop_request |-> request,
         memory     |-> response.memory]

agent_run(cls, memory, request, gate, loop) ==
    IF cls \in GatedClasses
    THEN specialist_run(cls, memory, request, gate, loop)
    ELSE generalist_run(memory, request, loop)

NoRun ==
    [verdict |-> FALSE, raised |-> FALSE, error |-> "", result |-> "", gate_calls |-> 0,
     llm_calls |-> 0, loop_calls |-> 0, loop_request |-> ""]

\* what a run did, without the memory it left (that is in the heap)
Trace(r) ==
    [verdict |-> r.verdict, raised |-> r.raised, error |-> r.error, result |-> r.result,
     gate_calls |-> r.gate_calls, llm_calls |-> r.llm_calls, loop_calls |-> r.loop_calls,
     loop_request |-> r.loop_request]

\* the outcomes a run consulted: the gate's only where there is a gate, the
\* loop's only where the loop was entered
GateUsed(cls, gate) == IF cls \in GatedClasses THEN gate ELSE NoGate
LoopUsed(r, loop) == IF r.loop_calls > 0 THEN loop ELSE NoLoop

(***************************************************************************)
(* The handlers as functions of the state                                  *)
(***************************************************************************)
\* a run_agent without its except clause: an error of the run leaves it
run_agent_no_except(h, d, agent_type, query, gate, loop) ==
    LET g == get_agent(h, d, agent_type)
    IN  IF g.raised
        THEN [heap |-> g.heap, agents |-> g.agents, raised |-> TRUE, result |-> "",
              inst |-> 0, constructed |-> g.constructed, ran |-> FALSE, run |-> NoRun,
              gate |-> NoGate, loop |-> NoLoop]
        ELSE LET self == g.heap[g.inst]
                 r == agent_run(self.cls, self.memory, query, gate, loop)
             IN  [heap |-> [g.heap EXCEPT ![g.inst].memory = r.memory],
                  agents |-> g.agents,
                  raised |-> r.raised,
                  result |-> IF r.raised THEN "" ELSE r.result,
                  inst |-> g.inst, constructed |-> g.constructed, ran |-> TRUE,
                  run |-> Trace(r), gate |-> GateUsed(self.cls, gate),
                  loop |-> LoopUsed(r, loop)]

\* run_agent with the lookup inside the try block
run_agent_lookup_in_try(h, d, agent_type, query, gate, loop) ==
    LET g == get_agent(h, d, agent_type)
    IN  IF g.raised
        THEN [heap |-> g.heap, agents |-> g.agents, raised |-> FALSE,
              result |-> "Error: '" \o agent_type \o "'",
              inst |-> 0, constructed |-> g.constructed, ran |-> FALSE, run |-> NoRun,
              gate |-> NoGate, loop |-> NoLoop]
        ELSE LET self == g.heap[g.inst]
                 r == agent_run(self.cls, self.memory, query, gate, loop)
             IN  [heap |-> [g.heap EXCEPT ![g.inst].memory = r.memory],
                  agents |-> g.agents,
                  raised |-> FALSE,
                  result |-> IF r.raised THEN "Error: " \o r.error ELSE r.result,
                  inst |-> g.inst, constructed |-> g.constructed, ran |-> TRUE,
                  run |-> Trace(r), gate |-> GateUsed(self.cls, gate),
                  loop |-> LoopUsed(r, loop)]

\* run_agent(agent_type, query): get_agent is called before the try block
run_agent(h, d, agent_type, query, gate, loop) ==
    LET g == get_agent(h, d, agent_type)
    IN  IF g.raised
        THEN [heap |-> g.heap, agents |-> g.agents, raised |-> TRUE, result |-> "",
              inst |-> 0, constructed |-> g.constructed, ran |-> FALSE, run |-> NoRun,
              gate |-> NoGate, loop |-> NoLoop]
        ELSE LET self == g.heap[g.inst]
                 r == agent_run(self.cls, self.memory, query, gate, loop)
             IN  [heap |-> [g.heap EXCEPT ![g.inst].memory = r.memory],
                  agents |-> g.agents,
                  raised |-> FALSE,
                  result |-> IF r.raised THEN "Error: " \o r.error ELSE r.result,
                  inst |-> g.inst, constructed |-> g.constructed, ran |-> TRUE,
                  run |-> Trace(r), gate |-> GateUsed(self.cls, gate),
                  loop |-> LoopUsed(r, loop)]

\* a _run that joins the context whenever one is given, the empty one too
_run_joins_given_context(h, m, args, gate, loop) ==
    LET agent_type == args.agent_type
        agent_description ==
            IF agent_type \in DOMAIN _agent_descriptions
            THEN _agent_descriptions[agent_type] ELSE agent_type
        g == _get_agent(h, m, agent_type)
        full_query == IF HasKey(args, "context")
                      THEN args.context \o "\n\nQuery: " \o args.query
                      ELSE args.query
    IN  IF g.raised
        THEN [heap |-> g.heap, raised |-> FALSE,
              result |-> "Error calling agent '" \o agent_type \o "': " \o g.error,
              inst |-> 0, constructed |-> FALSE, ran |-> FALSE, run |-> NoRun,
              full_query |-> "", gate |-> NoGate, loop |-> NoLoop]
        ELSE LET self == g.heap[g.inst]
                 r == agent_run(self.cls, self.memory, full_query, gate, loop)
             IN  [heap |-> [g.heap EXCEPT ![g.inst].memory = r.memory],
                  raised |-> FALSE,
                  result |-> IF r.raised
                             THEN "Error calling agent '" \o agent_type \o "': " \o r.error
                             ELSE "=== Results from " \o agent_description \o " ("
                                  \o agent_type \o ") ===\n\n" \o r.result
                                  \o "\n\n=== End of " \o agent_description \o " Results ===",
                  inst |-> g.inst, constructed |-> g.constructed, ran |-> TRUE,
                  run |-> Trace(r), full_query |-> full_query,
                  gate |-> GateUsed(self.cls, gate), loop |-> LoopUsed(r, loop)]

\* a _run whose try block ends before agent.run: an error of the run leaves it
_run_run_outside_try(h, m, args, gate, loop) ==
    LET agent_type == args.agent_type
        agent_description ==
            IF agent_type \in DOMAIN _agent_descriptions
            THEN _agent_descriptions[agent_type] ELSE agent_type
        g == _get_agent(h, m, agent_type)
        full_query == IF Truthy(args, "context")
                      THEN args.context \o "\n\nQuery: " \o args.query
                      ELSE args.query
    IN  IF g.raised
        THEN [heap |-> g.heap, raised |-> FALSE,
              result |-> "Error calling agent '" \o agent_type \o "': " \o g.error,
              inst |-> 0, constructed |-> FALSE, ran |-> FALSE, run |-> NoRun,
              full_query |-> "", gate |-> NoGate, loop |-> NoLoop]
        ELSE LET self == g.heap[g.inst]
                 r == agent_run(self.cls, self.memory, full_query, gate, loop)
             IN  [heap |-> [g.heap EXCEPT ![g.inst].memory = r.memory],
                  raised |-> r.raised,
                  result |-> IF r.raised
                             THEN ""
                             ELSE "=== Results from " \o agent_description \o " ("
                                  \o agent_type \o ") ===\n\n" \o r.result
                                  \o "\n\n=== End of " \o agent_description \o " Results ===",
                  inst |-> g.inst, constructed |-> g.constructed, ran |-> TRUE,
                  run |-> Trace(r), full_query |-> full_query,
                  gate |-> GateUsed(self.cls, gate), loop |-> LoopUsed(r, loop)]

\* a _run that returns the specialist's text without the two banners
_run_bare_result(h, m, args, gate, loop) ==
    LET agent_type == args.agent_type
        g == _get_agent(h, m, agent_type)
        full_query == IF Truthy(args, "context")
                      THEN args.context \o "\n\nQuery: " \o args.query
                      ELSE args.query
    IN  IF g.raised
        THEN [heap |-> g.heap, raised |-> FALSE,
              result |-> "Error calling agent '" \o agent_type \o "': " \o g.error,
              inst |-> 0, constructed |-> FALSE, ran |-> FALSE, run |-> NoRun,
              full_query |-> "", gate |-> NoGate, loop |-> NoLoop]
        ELSE LET self == g.heap[g.inst]
                 r == agent_run(self.cls, self.memory, full_query, gate, loop)
             IN  [heap |-> [g.heap EXCEPT ![g.inst].memory = r.memory],
                  raised |-> FALSE,
                  result |-> IF r.raised
                             THEN "Error calling agent '" \o agent_type \o "': " \o r.error
                             ELSE r.result,
                  inst |-> g.inst, constructed |-> g.constructed, ran |-> TRUE,
                  run |-> Trace(r), full_query |-> full_query,
                  gate |-> GateUsed(self.cls, gate), loop |-> LoopUsed(r, loop)]

\* the tool dropping a specialist whose run raised
_run_forgets_failed(h, m, args, gate, loop) ==
    LET agent_type == args.agent_type
        agent_description ==
            IF agent_type \in DOMAIN _agent_descriptions
            THEN _agent_descriptions[agent_type] ELSE agent_type
        g == _get_agent(h, m, agent_type)
        full_query == IF Truthy(args, "context")
                      THEN args.context \o "\n\nQuery: " \o args.query
                      ELSE args.query
    IN  IF g.raised
        THEN [heap |-> g.heap, raised |-> FALSE,
              result |-> "Error calling agent '" \o agent_type \o "': " \o g.error,
              inst |-> 0, constructed |-> FALSE, ran |-> FALSE, run |-> NoRun,
              full_query |-> "", gate |-> NoGate, loop |-> NoLoop]
        ELSE LET self == g.heap[g.inst]
                 r == agent_run(self.cls, self.memory, full_query, gate, loop)
             IN  [heap |-> [g.heap EXCEPT ![g.inst].memory = r.memory,
                                          ![m].tool = IF r.raised
                                                      THEN Del(@, agent_type) ELSE @],
                  raised |-> FALSE,
                  result |-> IF r.raised
                             THEN "Error calling agent '" \o agent_type \o "': " \o r.error
                             ELSE "=== Results from " \o agent_description \o " ("
                                  \o agent_type \o ") ===\n\n" \o r.result
                                  \o "\n\n=== End of " \o agent_description \o " Results ===",
                  inst |-> g.inst, constructed |-> g.constructed, ran |-> TRUE,
                  run |-> Trace(r), full_query |-> full_query,
                  gate |-> GateUsed(self.cls, gate), loop |-> LoopUsed(r, loop)]

\* the tool reporting a refusal as an error
_run_refusal_as_error(h, m, args, gate, loop) ==
    LET agent_type == args.agent_type
        agent_description ==
            IF agent_type \in DOMAIN _agent_descriptions
            THEN _agent_descriptions[agent_type] ELSE agent_type
        g == _get_agent(h, m, agent_type)
        full_query == IF Truthy(args, "context")
                      THEN args.context \o "\n\nQuery: " \o args.query
                      ELSE args.query
    IN  IF g.raised
        THEN [heap |-> g.heap, raised |-> FALSE,
              result |-> "Error calling agent '" \o agent_type \o "': " \o g.error,
              inst |-> 0, constructed |-> FALSE, ran |-> FALSE, run |-> NoRun,
              full_query |-> "", gate |-> NoGate, loop |-> NoLoop]
        ELSE LET self == g.heap[g.inst]
                 r == agent_run(self.cls, self.memory, full_query, gate, loop)
             IN  [heap |-> [g.heap EXCEPT ![g.inst].memory = r.memory],
                  raised |-> FALSE,
                  result |-> IF r.raised
                             THEN "Error calling agent '" \o agent_type \o "': " \o r.error
                             ELSE IF ~r.verdict
                             THEN "Error calling agent '" \o agent_type \o "': " \o r.result
                             ELSE "=== Results from " \o agent_description \o " ("
                                  \o agent_type \o ") ===\n\n" \o r.result
                                  \o "\n\n=== End of " \o agent_description \o " Results ===",
                  inst |-> g.inst, constructed |-> g.constructed, ran |-> TRUE,
                  run |-> Trace(r), full_query |-> full_query,
                  gate |-> GateUsed(self.cls, gate), loop |-> LoopUsed(r, loop)]

\* AgentCallTool._run on the tool of Manus object m
_run(h, m, args, gate, loop) ==
    LET agent_type == args.agent_type
        agent_description ==
            IF agent_type \in DOMAIN _agent_descriptions
            THEN _agent_descriptions[agent_type] ELSE agent_type
        g == _get_agent(h, m, agent_type)
        full_query == IF Truthy(args, "context")
                      THEN args.context \o "\n\nQuery: " \o args.query
                      ELSE args.query
    IN  IF g.raised
        THEN [heap |-> g.heap, raised |-> FALSE,
              result |-> "Error calling agent '" \o agent_type \o "': " \o g.error,
              inst |-> 0, constructed |-> FALSE, ran |-> FALSE, run |-> NoRun,
              full_query |-> "", gate |-> NoGate, loop |-> NoLoop]
        ELSE LET self == g.heap[g.inst]
                 r == agent_run(self.cls, self.memory, full_query, gate, loop)
             IN  [heap |-> [g.heap EXCEPT ![g.inst].memory = r.memory],
                  raised |-> FALSE,
                  result |-> IF r.raised
                             THEN "Error calling agent '" \o agent_type \o "': " \o r.error
                             ELSE "=== Results from " \o agent_description \o " ("
                                  \o agent_type \o ") ===\n\n" \o r.result
                                  \o "\n\n=== End of " \o agent_description \o " Results ===",
                  inst |-> g.inst, constructed |-> g.constructed, ran |-> TRUE,
                  run |-> Trace(r), full_query |-> full_query,
                  gate |-> GateUsed(self.cls, gate), loop |-> LoopUsed(r, loop)]

(***************************************************************************)
(* Inputs                                                                  *)
(***************************************************************************)
\* agent_type values of outward requests: the generalist, a gated specialist
\* and a type get_agent does not know
RequestTypes == {"manus", "finance_lead", "nonexistent"}
\* agent_type values the tool is called with: two specialists and two types
\* _get_agent does not know
DelegateTypes == {"finance_lead", "law_lead", "nonexistent", "manus"}
Queries == {"How do I value a SaaS company using DCF?"}
Contexts == {"", "C"}

QueryData ==
    {[agent_type |-> t, query |-> q] : t \in RequestTypes, q \in Queries}
    \cup {[query |-> q] : q \in Queries}
    \cup {[agent_type |-> "finance_lead", query |-> ""], [agent_type |-> "finance_lead"]}

CleanupData == {[agent_type |-> t] : t \in RequestTypes \ {"nonexistent"}} \cup {<<>>}

ToolArgs ==
    {[agent_type |-> t, query |-> q] : t \in DelegateTypes, q \in Queries}
    \cup {[agent_type |-> "finance_lead", query |-> q, context |-> c] :
            q \in Queries, c \in Contexts}

Raise(msg) == [raises |-> TRUE, content |-> msg]
Reply(text) == [raises |-> FALSE, content |-> text]

Gates == {Reply("YES"), Reply("NO"), Raise("connection reset")}

Loops ==
    {[raises |-> FALSE, content |-> "Use discounted cash flow...", steps |-> 1],
     [raises |-> TRUE, content |-> "step limit exceeded", steps |-> 2]}

(***************************************************************************)
(* State                                                                   *)
(***************************************************************************)
Idle ==
    [op |-> "init", reg |-> 0, agent_type |-> "", query |-> "", http |-> 0,
     raised |-> FALSE, result |-> "", inst |-> 0, constructed |-> FALSE,
     ran |-> FALSE, run |-> NoRun, gate |-> NoGate, loop |-> NoLoop,
     cleaned |-> {}, failed |-> {}, args |-> <<>>]

RECURSIVE SumOver(_, _)
SumOver(f, S) ==
    IF S = {} THEN 0
    ELSE LET x == CHOOSE y \in S : TRUE IN f[x] + SumOver(f, S \ {x})

TotalMessages(h) == SumOver([i \in DOMAIN h |-> Len(h[i].memory)], DOMAIN h)
TotalCleanups(h) == SumOver([i \in DOMAIN h |-> h[i].cleanups], DOMAIN h)

\* every entry of every registry: reg is 0 for the outward registry and m
\* for the tool of object m
Entries(h, d) ==
    {[reg |-> 0, type |-> d[i].type, inst |-> d[i].inst] : i \in 1..Len(d)}
    \cup UNION {{[reg |-> m, type |-> h[m].tool[i].type, inst |-> h[m].tool[i].inst] :
                    i \in 1..Len(h[m].tool)} : m \in DOMAIN h}

\* every instance some registry holds
Cached(h, d) == {e.inst : e \in Entries(h, d)}

\* the objects whose cleanup was invoked between heaps h and h2
CleanedBetween(h, h2) == {i \in DOMAIN h : h2[i].cleanups > h[i].cleanups}

Init ==
    /\ heap = <<>>
    /\ agents = <<>>
    /\ call = Idle
    /\ lookups = {}
    /\ released = {}
    /\ workers = <<>>

\* the history variables after a handler took the state to (h2, d2)
Forget(h2) == {l \in lookups : l.inst \notin CleanedBetween(heap, h2)}
Remember(reg, agent_type, inst) ==
    {l \in lookups : ~(l.reg = reg /\ l.type = agent_type)}
    \cup {[reg |-> reg, type |-> agent_type, inst |-> inst]}
Released(h2, d2) == released \cup (Entries(heap, agents) \ Entries(h2, d2))

(***************************************************************************)
(* Actions                                                                 *)
(***************************************************************************)
\* the bounds: a run or a cleanup starts only below them
MayRun == TotalMessages(heap) < MaxMessages
MayCleanup == TotalCleanups(heap) < MaxCleanups

\* POST /api/query.  The completion and the loop answer as `gate` and `loop`.
query_agent(data, gate, loop) ==
    LET agent_type == IF HasKey(data, "agent_type") THEN data.agent_type ELSE "manus"
    IN  IF ~Truthy(data, "query")
        THEN /\ call' = [Idle EXCEPT !.op = "query_agent", !.agent_type = agent_type,
                                     !.http = 400, !.result = "No query provided"]
             /\ UNCHANGED <<heap, agents, lookups, released, workers>>
        ELSE /\ MayRun
             /\ \E r \in {run_agent(heap, agents, agent_type, data.query, gate, loop)} :
                 /\ Len(r.heap) <= MaxInst
                 /\ heap' = r.heap
                 /\ agents' = r.agents
                 /\ call' = [Idle EXCEPT !.op = "query_agent", !.agent_type = agent_type,
                                !.query = data.query,
                                !.http = IF r.raised THEN 500 ELSE 200,
                                !.raised = r.raised, !.result = r.result,
                                !.inst = r.inst, !.constructed = r.constructed,
                                !.ran = r.ran, !.run = r.run, !.gate = r.gate,
                                !.loop = r.loop]
                 /\ lookups' = IF r.raised THEN lookups
                               ELSE Remember(0, agent_type, r.inst)
                 /\ UNCHANGED <<released, workers>>

\* POST /api/cleanup
cleanup_endpoint(data, fails) ==
    \E r \in {cleanup_agents(heap, agents, data, fails)} :
        /\ heap' = r.heap
        /\ agents' = r.agents
        /\ call' = [Idle EXCEPT !.op = "cleanup_agents",
                       !.agent_type = IF HasKey(data, "agent_type")
                                      THEN data.agent_type ELSE "",
                       !.http = IF r.raised THEN 500 ELSE 200,
                       !.raised = r.raised, !.result = r.status,
                       !.cleaned = CleanedBetween(heap, r.heap),
                       !.failed = CleanedBetween(heap, r.heap) \cap fails]
        /\ lookups' = Forget(r.heap)
        /\ released' = Released(r.heap, r.agents)
        /\ UNCHANGED workers

\* the cached Manus object, whose run executes tools
Generalist == Get(agents, "manus")

\* one call_agent tool execution in a run of the cached Manus object
call_agent(args, gate, loop) ==
    \E r \in {_run(heap, Generalist, args, gate, loop)} :
        /\ Len(r.heap) <= MaxInst
        /\ heap' = r.heap
        /\ call' = [Idle EXCEPT !.op = "call_agent", !.reg = Generalist,
                       !.agent_type = args.agent_type, !.query = r.full_query,
                       !.args = args, !.raised = r.raised,
                       !.result = r.result, !.inst = r.inst,
                       !.constructed = r.constructed, !.ran = r.ran, !.run = r.run,
                       !.gate = r.gate, !.loop = r.loop]
        /\ lookups' = IF r.inst = 0 THEN lookups
                      ELSE Remember(Generalist, args.agent_type, r.inst)
        /\ UNCHANGED <<agents, released, workers>>

\* AgentCallTool.cleanup() called on the tool of the cached Manus object
tool_cleanup(fails) ==
    \E r \in {AgentCallTool_cleanup(heap, Generalist, fails)} :
        /\ heap' = r.heap
        /\ call' = [Idle EXCEPT !.op = "tool_cleanup", !.reg = Generalist,
                       !.raised = r.raised,
                       !.cleaned = CleanedBetween(heap, r.heap),
                       !.failed = CleanedBetween(heap, r.heap) \cap fails]
        /\ lookups' = Forget(r.heap)
        /\ released' = Released(r.heap, agents)
        /\ UNCHANGED <<agents, workers>>

Next ==
    \/ \E data \in QueryData, gate \in Gates, loop \in Loops :
          query_agent(data, gate, loop)
    \/ /\ MayCleanup
       /\ \E data \in CleanupData, fails \in SUBSET DOMAIN heap :
             cleanup_endpoint(data, fails)
    \/ /\ Has(agents, "manus") /\ MayRun
       /\ \E args \in ToolArgs, gate \in Gates, loop \in Loops :
             call_agent(args, gate, loop)
    \/ /\ Has(agents, "manus") /\ MayCleanup
       /\ \E fails \in SUBSET DOMAIN heap :
             tool_cleanup(fails)

Spec == Init /\ [][Next]_vars

(***************************************************************************)
(* The run_*_agent.py scripts: one specialist object is constructed, main  *)
(* reads a prompt, runs the agent on it and cleans the agent up.           *)
(***************************************************************************)
Prompts ==
    {"", " \n", "How do I value a SaaS company using DCF?",
     "What is the capital of France?"}

RunGates ==
    {Reply(c) : c \in {"YES", "yes", "Yes", " YES\n", "\tyes  ", "NO", "no", "", "   ",
                       "YES.", "YES, because it concerns valuation", "Y ES", "YESYES",
                       "'YES'", "NO\nYES"}}
    \cup {Raise("connection reset")}

RunLoops ==
    {[raises |-> FALSE, content |-> "Use discounted cash flow...", steps |-> 1],
     [raises |-> FALSE, content |-> "R", steps |-> 2],
     [raises |-> TRUE, content |-> "step limit exceeded", steps |-> 2]}

\* the classes a run_*_agent.py script constructs (there is none for law)
RunnerClasses == GatedClasses \ {"LawLeadAgent"}

\* the outward types of the gated specialists
GatedTypes == {t \in OutwardTypes : OutwardClass(t) \in GatedClasses}

RunQueryData == {[agent_type |-> t, query |-> q] : t \in GatedTypes, q \in Prompts}

\* a script that has constructed its agent, or the server with nothing cached
InitRun ==
    /\ \/ /\ \E cls \in RunnerClasses : heap = <<new_agent(cls)>>
          /\ call = [Idle EXCEPT !.op = "start", !.inst = 1]
       \/ /\ heap = <<>>
          /\ call = Idle
    /\ agents = <<>>
    /\ lookups = {}
    /\ released = {}
    /\ workers = <<>>

\* main() of a run_*_agent.py script on the object it constructed
main(prompt, gate, loop, fails) ==
    /\ call.op = "start"
    /\ \E c \in {agent_cleanup(heap, 1, fails)} :
       IF strip(prompt) = ""
       THEN /\ heap' = c.heap
            /\ call' = [Idle EXCEPT !.op = "main", !.inst = 1, !.query = prompt,
                           !.raised = c.raised, !.cleaned = {1},
                           !.failed = {1} \cap fails]
       ELSE \E r \in {agent_run(heap[1].cls, heap[1].memory, prompt, gate, loop)} :
            /\ heap' = [c.heap EXCEPT ![1].memory = r.memory]
            /\ call' = [Idle EXCEPT !.op = "main", !.inst = 1, !.query = prompt,
                           !.ran = TRUE, !.run = Trace(r),
                           !.result = r.result,
                           !.gate = GateUsed(heap[1].cls, gate),
                           !.loop = LoopUsed(r, loop),
                           !.raised = c.raised, !.cleaned = {1},
                           !.failed = {1} \cap fails]
    /\ UNCHANGED <<agents, lookups, released, workers>>

\* one script run, or the first request the server answers with an agent
NextRun ==
    \/ \E prompt \in Prompts, gate \in RunGates, loop \in RunLoops, fails \in SUBSET {1} :
          main(prompt, gate, loop, fails)
    \/ /\ heap = <<>> /\ call.op # "start"
       /\ \E data \in RunQueryData, gate \in RunGates, loop \in RunLoops :
             query_agent(data, gate, loop)

SpecRun == InitRun /\ [][NextRun]_vars

(***************************************************************************)
(* Properties of the registries and of cleanup, under Spec                 *)
(***************************************************************************)
\* a handler that looked an agent up and got one
IsLookup(c) == c.op \in {"query_agent", "call_agent"} /\ c.inst # 0

\* a dict holds one entry for each of its keys
OnePerType(d) == Cardinality(Keys(d)) = Len(d)

\* C1: referential stability.  In the outward registry and in the tool's
\* registry, a lookup of a type that was looked up before, with no cleanup
\* of the returned instance in between, returns that same instance and
\* constructs nothing; and a registry never holds two entries for one type.
C1_ReferentialStability ==
    [][/\ IsLookup(call') =>
             \A l \in lookups :
                 (l.reg = call'.reg /\ l.type = call'.agent_type) =>
                     /\ call'.inst = l.inst
                     /\ ~call'.constructed
                     /\ Len(heap') = Len(heap)
       /\ (IsLookup(call') /\ call'.constructed) =>
             /\ Len(heap') = Len(heap) + 1
             /\ call'.inst = Len(heap')
             /\ \A l \in lookups : ~(l.reg = call'.reg /\ l.type = call'.agent_type)
       /\ OnePerType(agents')
       /\ \A m \in DOMAIN heap' : OnePerType(heap'[m].tool)]_vars

\* a request for finance_lead served by the instance an earlier request made
C1_Witness ==
    /\ call.op = "query_agent"
    /\ call.agent_type = "finance_lead"
    /\ call.ran
    /\ ~call.constructed
    /\ [reg |-> 0, type |-> "finance_lead", inst |-> call.inst] \in lookups

\* C2: when the cleanup endpoint, called with a cached agent_type, completes,
\* the instance was cleaned up and the type has no entry any more; the next
\* get_agent of a released type that has no entry constructs a new object,
\* none of the released ones; and no registry holds a released instance.
C2_ReleaseThenFresh ==
    [][/\ (/\ call'.op = "cleanup_agents"
           /\ call'.agent_type # ""
           /\ Has(agents, call'.agent_type)
           /\ ~call'.raised) =>
              /\ ~Has(agents', call'.agent_type)
              /\ Get(agents, call'.agent_type) \in call'.cleaned
              /\ [reg |-> 0, type |-> call'.agent_type,
                  inst |-> Get(agents, call'.agent_type)] \in released'
       /\ (/\ call'.op = "query_agent"
           /\ call'.inst # 0
           /\ ~Has(agents, call'.agent_type)
           /\ \E x \in released : x.reg = 0 /\ x.type = call'.agent_type) =>
              /\ call'.constructed
              /\ call'.inst \notin DOMAIN heap
              /\ \A x \in released : x.inst # call'.inst
              /\ Get(agents', call'.agent_type) = call'.inst
       /\ \A x \in released' :
              ~(x.reg = 0 /\ Has(agents', x.type) /\ Get(agents', x.type) = x.inst)]_vars

\* a request for a type whose earlier instance the endpoint released got a
\* newly constructed instance
C2_Witness ==
    /\ call.op = "query_agent"
    /\ call.constructed
    /\ \E x \in released :
          x.reg = 0 /\ x.type = call.agent_type /\ x.inst < call.inst

\* C3: after the cleanup endpoint is called without an agent_type, the
\* outward registry is empty and the cleanup of every instance that was
\* cached has been invoked, whether or not one of them raised.
C3_ReleaseAllTotal ==
    [][(call'.op = "cleanup_agents" /\ call'.agent_type = "") =>
          /\ agents' = <<>>
          /\ Values(agents) \subseteq call'.cleaned]_vars

\* C4: AgentCallTool.cleanup invokes cleanup once on every specialist its
\* registry holds and on no other object, is not stopped by a cleanup that
\* raises, raises nothing itself, and leaves the registry empty.
C4_ToolCleanupTotal ==
    [][call'.op = "tool_cleanup" =>
          LET m == call'.reg
              before == Values(heap[m].tool)
          IN  /\ \A i \in before : heap'[i].cleanups = heap[i].cleanups + 1
              /\ \A i \in DOMAIN heap \ before : heap'[i].cleanups = heap[i].cleanups
              /\ call'.cleaned = before
              /\ ~call'.raised
              /\ heap'[m].tool = <<>>]_vars

\* the tool cleaned two specialists although the cleanup of the first raised
C4_Witness ==
    /\ call.op = "tool_cleanup"
    /\ ~call.raised
    /\ heap[call.reg].tool = <<>>
    /\ \E i \in call.failed, j \in call.cleaned \ call.failed : i < j

\* C5: the cleanup endpoint called with an agent_type that has no entry in
\* the outward registry invokes no cleanup, leaves every entry in place and
\* raises nothing.
C5_ReleaseAbsentNoOp ==
    [][(/\ call'.op = "cleanup_agents"
        /\ call'.agent_type # ""
        /\ ~Has(agents, call'.agent_type)) =>
          /\ call'.cleaned = {}
          /\ agents' = agents
          /\ ~call'.raised]_vars

\* an outward request for finance_lead that passed the gate and whose loop
\* returned a text
FinanceScenario ==
    /\ call.op = "query_agent"
    /\ call.agent_type = "finance_lead"
    /\ call.ran
    /\ call.run.verdict
    /\ ~call.run.raised

\* C10 as stated: the result of a finance_lead request that passed the gate
\* is the loop's text R followed by a disclaimer.
C10_FinanceDisclaimer ==
    FinanceScenario =>
        /\ StartsWith(call.result, call.loop.content)
        /\ Len(call.result) > Len(call.loop.content)

\* C10 as the code has it: the result of a finance_lead request that passed
\* the gate is the loop's text R and nothing else, and the specialist that
\* ran is a FinanceLeadAgent.
C10_FinanceReturnsLoopText ==
    FinanceScenario =>
        /\ call.result = call.loop.content
        /\ call.http = 200
        /\ heap[call.inst].cls = "FinanceLeadAgent"

\* a finance_lead request answered YES by the gate, whose loop returned
C10_Witness ==
    /\ FinanceScenario
    /\ call.gate = Reply("YES")
    /\ call.result = "Use discounted cash flow..."

\* the last message with role "user" in a memory, "" when there is none
RECURSIVE LastUserContent(_)
LastUserContent(memory) ==
    IF memory = <<>> THEN ""
    ELSE IF memory[Len(memory)].role = "user"
         THEN memory[Len(memory)].content
         ELSE LastUserContent(SubSeq(memory, 1, Len(memory) - 1))

\* a tool execution that resolved a specialist and ran it
Delegated == call.op = "call_agent" /\ call.ran

\* C11: the text the tool passes to the specialist's run is the context,
\* "\n\nQuery: " and the query when a non-empty context is given, and the
\* query alone when the context is absent or empty.
C11_ContextJoining ==
    Delegated =>
        LET given == "context" \in DOMAIN call.args /\ call.args.context # ""
            forwarded == IF given
                         THEN call.args.context \o "\n\nQuery: " \o call.args.query
                         ELSE call.args.query
        IN  /\ call.query = forwarded
            /\ LastUserContent(heap[call.inst].memory) = forwarded
            /\ call.run.loop_calls > 0 => call.run.loop_request = forwarded

\* the finance specialist's loop received the context C joined to the query
C11_Witness ==
    /\ Delegated
    /\ call.args = [agent_type |-> "finance_lead", context |-> "C",
                    query |-> "How do I value a SaaS company using DCF?"]
    /\ call.run.loop_request = "C\n\nQuery: How do I value a SaaS company using DCF?"

\* C12: an error raised while the tool resolves the type or runs the
\* specialist does not leave the tool: the tool returns the text
\* "Error calling agent '<agent_type>': <message>".
C12_DelegationErrorPolicy ==
    call.op = "call_agent" =>
        /\ ~call.raised
        /\ (call.ran /\ call.run.raised) =>
              call.result = "Error calling agent '" \o call.agent_type \o "': "
                               \o call.loop.content
        /\ ~call.ran =>
              /\ StartsWith(call.result, "Error calling agent '" \o call.agent_type \o "': ")
              /\ Len(call.result) > Len("Error calling agent '" \o call.agent_type \o "': ")

\* the law specialist's loop raised and the tool returned the error text
C12_Witness ==
    /\ Delegated
    /\ call.agent_type = "law_lead"
    /\ call.run.raised
    /\ call.result = "Error calling agent 'law_lead': step limit exceeded"

\* C16: when the run of the agent an outward request selected raises, the
\* handler answers with the text "Error: <message>", does not fail itself,
\* and the agent stays in the registry.
C16_OutwardErrorResult ==
    (call.op = "query_agent" /\ call.ran /\ call.run.raised) =>
        /\ call.result = "Error: " \o call.loop.content
        /\ ~call.raised
        /\ call.http = 200
        /\ Has(agents, call.agent_type)
        /\ Get(agents, call.agent_type) = call.inst

\* a request to manus whose loop raised was answered with the error text
C16_Witness ==
    /\ call.op = "query_agent"
    /\ call.agent_type = "manus"
    /\ call.run.raised
    /\ call.result = "Error: step limit exceeded"
    /\ Get(agents, "manus") = call.inst

\* C17: an outward request whose query is absent or empty is answered with
\* a client error; no agent is looked up, constructed or run and the
\* registry is as it was.
C17_NoQueryClientError ==
    [][(call'.op = "query_agent" /\ call'.query = "") =>
          /\ call'.http = 400
          /\ call'.inst = 0
          /\ ~call'.constructed
          /\ ~call'.ran
          /\ agents' = agents
          /\ heap' = heap
          /\ lookups' = lookups]_vars

\* a request without a query was refused while an agent was cached
C17_Witness ==
    /\ call.op = "query_agent"
    /\ call.http = 400
    /\ call.result = "No query provided"
    /\ Has(agents, "finance_lead")

\* C19: no instance is held by two registries, and a lookup returns either
\* a new object or one its own registry held for that type: never one that
\* another registry holds.
C19_RegistriesDisjoint ==
    [][/\ \A e1, e2 \in Entries(heap', agents') :
             e1.inst = e2.inst => e1.reg = e2.reg
       /\ IsLookup(call') =>
             /\ \A e \in Entries(heap, agents) :
                   e.inst = call'.inst => (e.reg = call'.reg /\ e.type = call'.agent_type)
             /\ ~call'.constructed =>
                   [reg |-> call'.reg, type |-> call'.agent_type, inst |-> call'.inst]
                       \in Entries(heap, agents)
             /\ call'.constructed => call'.inst \notin DOMAIN heap]_vars

\* finance_lead is cached in the outward registry and in the tool, as two
\* objects
C19_Witness ==
    /\ call.op = "call_agent"
    /\ call.agent_type = "finance_lead"
    /\ Has(agents, "finance_lead")
    /\ Has(heap[call.reg].tool, "finance_lead")
    /\ Get(agents, "finance_lead") # Get(heap[call.reg].tool, "finance_lead")

(***************************************************************************)
(* Properties of a gated specialist's run, under SpecRun                   *)
(***************************************************************************)
\* a script or a request ran a gated specialist
SpecialistRan ==
    /\ call.op \in {"main", "query_agent"}
    /\ call.ran
    /\ heap[call.inst].cls \in GatedClasses

\* C6: when the completion call of the relevance check raises, the verdict
\* is true, the loop is entered once, and run raises only what the loop
\* raises: the gate's error reaches nobody.
C6_GateFailOpen ==
    (SpecialistRan /\ call.gate.raises) =>
        /\ call.run.verdict
        /\ call.run.loop_calls = 1
        /\ call.run.loop_request = call.query
        /\ call.run.raised = call.loop.raises
        /\ call.run.error # call.gate.content
        /\ call.result # "Error: " \o call.gate.content

\* the gate's call raised and the run returned the loop's text
C6_Witness ==
    /\ SpecialistRan
    /\ call.gate.raises
    /\ call.run.loop_calls = 1
    /\ ~call.run.raised
    /\ call.run.result # ""

\* the texts that are YES in some casing between runs of whitespace
IsYes(s) ==
    \E i \in 0..Len(s) :
        /\ i + 3 <= Len(s)
        /\ \A k \in 1..i : SubSeq(s, k, k) \in Whitespace
        /\ SubSeq(s, i + 1, i + 1) \in {"Y", "y"}
        /\ SubSeq(s, i + 2, i + 2) \in {"E", "e"}
        /\ SubSeq(s, i + 3, i + 3) \in {"S", "s"}
        /\ \A k \in (i + 4)..Len(s) : SubSeq(s, k, k) \in Whitespace

\* C7: when the completion call succeeds, the verdict is true exactly when
\* the reply is YES once trimmed and upper-cased; NO, the empty reply,
\* 'YES.' and 'YES, because ...' give false.
C7_VerdictIffYes ==
    (SpecialistRan /\ ~call.gate.raises) =>
        /\ call.run.verdict <=> IsYes(call.gate.content)
        /\ call.gate.content \in {"NO", "", "YES.", "YES, because it concerns valuation"}
              => ~call.run.verdict
        /\ call.gate.content \in {"YES", "yes", " YES\n", "\tyes  "}
              => call.run.verdict

\* a reply of yes in lower case between whitespace passed the gate
C7_Witness ==
    /\ SpecialistRan
    /\ ~call.gate.raises
    /\ call.gate.content = "\tyes  "
    /\ call.run.verdict

\* C8: when the verdict is false, run does not enter the loop, makes no
\* completion call but the gate's, and returns the refusal text of its
\* class with nothing appended.
C8_RefusalPath ==
    (SpecialistRan /\ ~call.run.verdict) =>
        /\ call.run.loop_calls = 0
        /\ call.run.llm_calls = 1
        /\ call.run.gate_calls = 1
        /\ ~call.run.raised
        /\ call.run.result = refusal_message(heap[call.inst].cls)
        /\ call.result = refusal_message(heap[call.inst].cls)
        /\ heap[call.inst].memory =
              <<user_message(call.query),
                assistant_message(refusal_message(heap[call.inst].cls))>>

\* the law specialist, which has a disclaimer, refused a query
C8_Witness ==
    /\ SpecialistRan
    /\ heap[call.inst].cls = "LawLeadAgent"
    /\ call.gate = Reply("NO")
    /\ ~call.run.verdict
    /\ call.result = "I specialize in Law and Legal topics. This question seems outside my area of expertise."

\* C9: when the verdict is true and the loop returns R, the law, SEO,
\* marketing and HR specialists return R followed by their fixed text, which
\* begins with an empty line, and the other specialists return R.
C9_PostprocessExact ==
    (SpecialistRan /\ call.run.verdict /\ ~call.run.raised) =>
        LET cls == heap[call.inst].cls
            R == call.loop.content
        IN  IF cls \in {"LawLeadAgent", "SEOLeadAgent", "MarketingLeadAgent", "HRLeadAgent"}
            THEN /\ call.run.result = R \o disclaimer(cls)
                 /\ StartsWith(disclaimer(cls), "\n\n")
                 /\ Len(disclaimer(cls)) > 2
                 /\ Len(call.run.result) = Len(R) + Len(disclaimer(cls))
            ELSE call.run.result = R

\* the HR specialist returned R followed by its note
C9_Witness ==
    /\ SpecialistRan
    /\ heap[call.inst].cls = "HRLeadAgent"
    /\ call.run.verdict
    /\ call.loop.content = "R"
    /\ call.run.result = "R\n\nNote: HR practices must comply with local labor laws and regulations. This response is for informational purposes only. Please consult with appropriate legal counsel or HR professionals for specific situations."

\* C15: an error the loop raises during a specialist's run leaves run as it
\* is: run returns no text, no disclaimer and no refusal.
C15_LoopErrorsPropagate ==
    (SpecialistRan /\ call.loop.raises) =>
        /\ call.run.verdict
        /\ call.run.raised
        /\ call.run.error = call.loop.content
        /\ call.run.result = ""
        /\ call.result \in {"", "Error: " \o call.loop.content}
        /\ \A i \in 1..Len(heap[call.inst].memory) :
              heap[call.inst].memory[i].content # refusal_message(heap[call.inst].cls)

\* the loop of the law specialist raised and so did its run
C15_Witness ==
    /\ SpecialistRan
    /\ heap[call.inst].cls = "LawLeadAgent"
    /\ call.gate = Reply("YES")
    /\ call.run.raised
    /\ call.run.error = "step limit exceeded"

(***************************************************************************)
(* The tool of one Manus object, called with every type: SpecTool          *)
(***************************************************************************)
\* the types the tool's description and its agent_type parameter name
AdvertisedTypes ==
    {"mcp", "data_eng", "product_manager", "tech_lead", "finance_lead",
     "law_lead", "seo_lead", "marketing_lead", "hr_lead"}

ToolRequests ==
    {[agent_type |-> t, query |-> q] :
        t \in AdvertisedTypes \cup {"nonexistent", "manus"}, q \in Queries}

ToolGates == {Reply("YES"), Reply("NO")}

\* get_agent("manus") has constructed the Manus object and its run begins
InitTool ==
    /\ heap = <<new_agent("Manus")>>
    /\ agents = <<[type |-> "manus", inst |-> 1]>>
    /\ call = Idle
    /\ lookups = {[reg |-> 0, type |-> "manus", inst |-> 1]}
    /\ released = {}
    /\ workers = <<>>

NextTool ==
    /\ MayRun
    /\ \E args \in ToolRequests, gate \in ToolGates, loop \in Loops :
          call_agent(args, gate, loop)

SpecTool == InitTool /\ [][NextTool]_vars

\* the text p occurs in the text s
Contains(s, p) ==
    \E i \in 1..(Len(s) - Len(p) + 1) : SubSeq(s, i, i + Len(p) - 1) = p

\* C13: the tool called with a type that is none of its nine returns the
\* unknown-type message in its error text, raises nothing, constructs and
\* runs no agent.
C13_UnknownAgentType ==
    [][(call'.op = "call_agent" /\ call'.agent_type \notin AdvertisedTypes) =>
          /\ ~call'.raised
          /\ ~call'.ran
          /\ ~call'.constructed
          /\ call'.inst = 0
          /\ heap' = heap
          /\ Contains(call'.result, "Unknown agent type: " \o call'.agent_type)
          /\ StartsWith(call'.result, "Error calling agent '")]_vars

\* the tool answered a call for the type "nonexistent"
C13_Witness ==
    /\ call.op = "call_agent"
    /\ call.agent_type = "nonexistent"
    /\ call.result = "Error calling agent 'nonexistent': Unknown agent type: nonexistent"

\* C14: when the specialist's run returns R, the tool returns the banner
\* "=== Results from <description> (<agent_type>) ===", an empty line, R, an
\* empty line and the banner "=== End of <description> Results ===", with
\* the description the map gives for the type.
C14_ProvenanceWrapping ==
    (Delegated /\ ~call.run.raised) =>
        LET D == _agent_descriptions[call.agent_type]
            R == call.run.result
            opening == "=== Results from " \o D \o " (" \o call.agent_type \o ") ===\n\n"
            closing == "\n\n=== End of " \o D \o " Results ==="
        IN  /\ call.result = opening \o R \o closing
            /\ SubSeq(call.result, Len(opening) + 1, Len(opening) + Len(R)) = R
            /\ Len(call.result) = Len(opening) + Len(R) + Len(closing)
            /\ R # ""

\* the tech lead's text came back between the two banners
C14_Witness ==
    /\ Delegated
    /\ call.agent_type = "tech_lead"
    /\ call.result = "=== Results from Technical Architecture Expert (tech_lead) ===\n\nUse discounted cash flow...\n\n=== End of Technical Architecture Expert Results ==="

\* C32: when the specialist the tool called refuses the query, the tool
\* returns the refusal of the specialist's class between the two banners, as
\* it returns any result; it returns no "Error calling agent" text, raises
\* nothing, and the loop of the specialist was not invoked.
C32_RefusalIsResult ==
    (Delegated /\ ~call.run.verdict) =>
        LET D == _agent_descriptions[call.agent_type]
            R == refusal_message(heap[call.inst].cls)
        IN  /\ call.result = "=== Results from " \o D \o " (" \o call.agent_type
                                \o ") ===\n\n" \o R \o "\n\n=== End of " \o D
                                \o " Results ==="
            /\ ~Contains(call.result, "Error calling agent")
            /\ ~call.raised
            /\ ~call.run.raised
            /\ call.run.loop_calls = 0

\* the SEO specialist refused and its refusal came back between the banners
C32_Witness ==
    /\ Delegated
    /\ call.agent_type = "seo_lead"
    /\ ~call.run.verdict
    /\ StartsWith(call.result, "=== Results from SEO Expert (seo_lead) ===\n\nI specialize in")
    /\ EndsWith(call.result, "\n\n=== End of SEO Expert Results ===")

\* C33: a call of the tool for a type it does not know leaves its registry
\* as it was: the type gets no entry, the entries there stay, in their
\* order and on the same objects, and those objects are not touched.
C33_UnknownLeavesRegistry ==
    [][(call'.op = "call_agent" /\ call'.agent_type \notin AdvertisedTypes) =>
          /\ ~Has(heap'[1].tool, call'.agent_type)
          /\ Len(heap'[1].tool) = Len(heap[1].tool)
          /\ \A k \in DOMAIN heap[1].tool :
                /\ heap'[1].tool[k] = heap[1].tool[k]
                /\ heap'[heap[1].tool[k].inst] = heap[heap[1].tool[k].inst]
          /\ DOMAIN heap' = DOMAIN heap]_vars

\* the tool, with two specialists cached, was called for the type "manus"
C33_Witness ==
    /\ call.op = "call_agent"
    /\ call.agent_type = "manus"
    /\ StartsWith(call.result, "Error calling agent 'manus'")
    /\ Len(heap[1].tool) = 2
    /\ Len(heap) = 3

\* C18: each of the nine advertised types has a description and resolves in
\* _get_agent to a specialist object; a call for an advertised type never
\* gets the unknown-type error.
C18_AdvertisedTypesResolve ==
    /\ DOMAIN _agent_descriptions = AdvertisedTypes
    /\ \A t \in AdvertisedTypes :
          /\ _agent_descriptions[t] # ""
          /\ LET g == _get_agent(heap, Generalist, t)
             IN  /\ ~g.raised
                 /\ g.inst \in DOMAIN g.heap
                 /\ g.heap[g.inst].cls = ToolClass(t)
                 /\ Get(g.heap[Generalist].tool, t) = g.inst
    /\ (call.op = "call_agent" /\ call.agent_type \in AdvertisedTypes) =>
          /\ call.ran
          /\ call.inst # 0
          /\ ~Contains(call.result, "Unknown agent type")

\* a call for hr_lead constructed the HR specialist and ran it
C18_Witness ==
    /\ Delegated
    /\ call.agent_type = "hr_lead"
    /\ call.constructed
    /\ heap[call.inst].cls = "HRLeadAgent"
    /\ Contains(call.result, "Human Resources Specialist (hr_lead)")

(***************************************************************************)
(* A specialist's run in its two steps, the relevance check and the rest:  *)
(* SpecGate                                                                *)
(***************************************************************************)
\* the memories an object has when run is called: none, or an earlier
\* request and its refusal
PriorMemories(cls) ==
    {<<>>,
     <<user_message("What is the capital of France?"),
       assistant_message(refusal_message(cls))>>}

\* run(request) has been called on an object of a gated class
InitGate ==
    /\ \E cls \in GatedClasses, request \in Prompts \ {""} :
       \E memory \in PriorMemories(cls) :
          /\ heap = <<[new_agent(cls) EXCEPT !.memory = memory]>>
          /\ call = [Idle EXCEPT !.op = "run", !.inst = 1, !.query = request]
    /\ agents = <<>>
    /\ lookups = {}
    /\ released = {}
    /\ workers = <<>>

\* is_relevant = await self._is_query_relevant(request)
gate_step(gate) ==
    /\ call.op = "run"
    /\ \E r \in {relevance_check(heap[1].memory, call.query, gate)} :
          /\ heap' = [heap EXCEPT ![1].memory = r.memory]
          /\ call' = [call EXCEPT !.op = "checked", !.gate = gate,
                         !.args = <<[messages |-> r.messages,
                                     max_tokens |-> r.max_tokens,
                                     temperature |-> r.temperature]>>,
                         !.run = [NoRun EXCEPT !.verdict = r.verdict,
                                               !.gate_calls = 1, !.llm_calls = 1]]
    /\ UNCHANGED <<agents, lookups, released, workers>>

\* the rest of run, from 'if not is_relevant' on
run_continue(loop) ==
    /\ call.op = "checked"
    /\ \E r \in {run_after_gate(heap[1].cls, heap[1].memory, call.query,
                                call.run.verdict, loop)} :
          /\ heap' = [heap EXCEPT ![1].memory = r.memory]
          /\ call' = [call EXCEPT !.op = "returned", !.ran = TRUE, !.run = Trace(r),
                         !.result = r.result, !.loop = LoopUsed(r, loop)]
    /\ UNCHANGED <<agents, lookups, released, workers>>

NextGate ==
    \/ \E gate \in RunGates : gate_step(gate)
    \/ \E loop \in RunLoops : run_continue(loop)

SpecGate == InitGate /\ [][NextGate]_vars

\* C20: across the relevance check the object's memory is the same,
\* whatever the completion call returns or raises; the prompt of the check
\* goes to the completion call only.
C20_GateLeavesMemory ==
    [][(call.op = "run" /\ call'.op = "checked") =>
          /\ heap'[call.inst].memory = heap[call.inst].memory
          /\ heap' = heap
          /\ \A i \in 1..Len(heap'[call.inst].memory) :
                heap'[call.inst].memory[i].content # check_prompt(call.query)]_vars

\* a check whose completion call raised, on an object that had a memory
C20_Witness ==
    /\ call.op = "checked"
    /\ call.gate.raises
    /\ call.run.verdict
    /\ Len(heap[call.inst].memory) = 2

\* C21: on the refusal path run appends two messages to the memory, the
\* user message with the request as it came and then the assistant message
\* with the refusal of the class; up to the verdict it appends nothing.
C21_RefusalAppends ==
    [][/\ (call.op = "run" /\ call'.op = "checked") =>
             heap'[call.inst].memory = heap[call.inst].memory
       /\ (call.op = "checked" /\ call'.op = "returned" /\ ~call'.run.verdict) =>
             /\ Len(heap'[call.inst].memory) = Len(heap[call.inst].memory) + 2
             /\ heap'[call.inst].memory =
                   heap[call.inst].memory \o
                      <<[role |-> "user", content |-> call.query],
                        [role |-> "assistant",
                         content |-> refusal_message(heap[call.inst].cls)]>>]_vars

\* a refused request that was blank but not empty, on an object that had a
\* memory of two messages
C21_Witness ==
    /\ call.op = "returned"
    /\ ~call.run.verdict
    /\ call.query = " \n"
    /\ Len(heap[call.inst].memory) = 4
    /\ heap[call.inst].memory[3] = [role |-> "user", content |-> " \n"]
    /\ heap[call.inst].memory[4].role = "assistant"

\* C26: the run of a gated class has two phases. The first step is the one
\* completion call of the check (temperature 0.0, at most 10 tokens, the
\* check prompt as its only message): until it is over the loop has not been
\* invoked and nothing else has changed. After it the loop is invoked at
\* most once, exactly when the verdict is true (a YES, or a check that
\* raised), with the request unmodified; a run that does not raise ends
\* refused with the loop never invoked, or done with the loop invoked once.
C26_TwoPhases ==
    [][/\ call.op = "run" => call'.op = "checked"
       /\ (call.op = "run" /\ call'.op = "checked") =>
             /\ call'.run.gate_calls = 1
             /\ call'.run.loop_calls = 0
             /\ Len(call'.args) = 1
             /\ call'.args[1].temperature = 0
             /\ call'.args[1].max_tokens = 10
             /\ call'.args[1].messages = <<[role |-> "user",
                                            content |-> check_prompt(call.query)]>>
             /\ call'.run.verdict =
                   (call'.gate.raises \/ IsYes(call'.gate.content))
             /\ heap' = heap
       /\ (call.op = "checked" /\ call'.op = "returned") =>
             /\ call'.run.gate_calls = 1
             /\ call'.args = call.args
             /\ call'.run.verdict = call.run.verdict
             /\ call'.run.loop_calls = IF call.run.verdict THEN 1 ELSE 0
             /\ call'.run.loop_calls = 1 => call'.run.loop_request = call.query
             /\ ~call'.run.raised =>
                   \/ /\ ~call'.run.verdict
                      /\ call'.run.loop_calls = 0
                      /\ call'.result = refusal_message(heap[call.inst].cls)
                   \/ /\ call'.run.verdict
                      /\ call'.run.loop_calls = 1
       /\ call.op = "returned" => call' = call]_vars

\* a run accepted because the check raised, whose loop got the blank request
\* as it came and returned
C26_Witness ==
    /\ call.op = "returned"
    /\ call.gate.raises
    /\ call.run.verdict
    /\ call.run.loop_calls = 1
    /\ call.run.loop_request = " \n"
    /\ ~call.run.raised
    /\ call.args[1].max_tokens = 10

\* ---------------------------------------------------------------------
\* The outward registry over the requests of one sequential execution
\* ---------------------------------------------------------------------

\* the types the server can construct
KnownTypes ==
    {"manus", "mcp", "data_eng", "product_manager", "tech_lead", "finance_lead",
     "law_lead", "seo_lead", "marketing_lead", "hr_lead"}

\* C27: the registry starts empty. A request that reaches get_agent with a
\* known type leaves that type cached, on a newly constructed object when it
\* was not cached and on the cached one otherwise, and changes no other
\* entry; a request with an unknown type or without a query changes nothing.
\* No other operation adds an entry, and only the cleanup endpoint removes
\* one. So a type is cached exactly when it is known and was requested since
\* the endpoint last removed it.
C27_LazyExplicit ==
    /\ agents = <<>>
    /\ [][/\ (call'.op = "query_agent" /\ call'.http # 400) =>
              IF call'.agent_type \in KnownTypes
              THEN /\ Keys(agents') = Keys(agents) \cup {call'.agent_type}
                   /\ \A t \in Keys(agents) : Get(agents', t) = Get(agents, t)
                   /\ call'.agent_type \notin Keys(agents) =>
                         /\ Get(agents', call'.agent_type) \notin DOMAIN heap
                         /\ heap'[Get(agents', call'.agent_type)].memory # <<>>
              ELSE agents' = agents
          /\ (call'.op = "query_agent" /\ call'.http = 400) =>
                 agents' = agents /\ heap' = heap
          /\ call'.op # "query_agent" => Keys(agents') \subseteq Keys(agents)
          /\ call'.op # "cleanup_agents" => Keys(agents) \subseteq Keys(agents')
          /\ \A t \in Keys(agents) \cap Keys(agents') : Get(agents', t) = Get(agents, t)
          /\ \A i \in DOMAIN agents' : agents'[i].type \in KnownTypes]_vars

\* finance_lead is cached again by a request that came after the endpoint had
\* removed it, while manus is not cached
C27_Witness ==
    /\ call.op = "query_agent"
    /\ call.agent_type = "finance_lead"
    /\ call.constructed
    /\ Keys(agents) = {"finance_lead"}
    /\ \E x \in released : x.reg = 0 /\ x.type = "finance_lead"
    /\ \E x \in released : x.reg = 0 /\ x.type = "manus"

\* C28: the cleanup endpoint called with a cached type t invokes cleanup once
\* on t's instance and then removes the entry: the entry is gone when the
\* cleanup returned and still there when it raised. Every other entry stays
\* in place, in its order, and its instance is not cleaned.
C28_ReleaseOne ==
    [][(/\ call'.op = "cleanup_agents"
        /\ call'.agent_type # ""
        /\ Has(agents, call'.agent_type)) =>
          LET t == call'.agent_type
              a == Get(agents, t)
          IN  /\ heap'[a].cleanups = heap[a].cleanups + 1
              /\ call'.raised <=> a \in call'.failed
              /\ agents' = IF call'.raised THEN agents
                           ELSE SelectSeq(agents, LAMBDA e : e.type # t)
              /\ \A i \in DOMAIN agents :
                    agents[i].type # t =>
                       /\ \E k \in DOMAIN agents' : agents'[k] = agents[i]
                       /\ heap'[agents[i].inst].cleanups = heap[agents[i].inst].cleanups
                       /\ heap'[agents[i].inst] = heap[agents[i].inst]]_vars

\* finance_lead was released while manus was cached: manus is still cached
\* and was never cleaned
C28_Witness ==
    /\ call.op = "cleanup_agents"
    /\ call.agent_type = "finance_lead"
    /\ ~call.raised
    /\ ~Has(agents, "finance_lead")
    /\ Has(agents, "manus")
    /\ heap[Get(agents, "manus")].cleanups = 0
    /\ \E x \in released :
          x.reg = 0 /\ x.type = "finance_lead" /\ heap[x.inst].cleanups = 1

\* a is the beginning of b
IsPrefix(a, b) == Len(a) <= Len(b) /\ SubSeq(b, 1, Len(a)) = a

\* C31: the memory of an object only grows: after each operation of the
\* server or of the tool every object is still there and its memory begins
\* with the memory it had before; and a request for a cached type runs on
\* the cached object, so that object still holds the messages of the
\* requests it refused before.
C31_MemoryAppendOnly ==
    [][/\ \A i \in DOMAIN heap :
             /\ i \in DOMAIN heap'
             /\ IsPrefix(heap[i].memory, heap'[i].memory)
       /\ (call'.op = "query_agent" /\ call'.ran /\ Has(agents, call'.agent_type)) =>
             /\ call'.inst = Get(agents, call'.agent_type)
             /\ ~call'.constructed
             /\ IsPrefix(heap[call'.inst].memory, heap'[call'.inst].memory)
             /\ ~call'.run.verdict =>
                   Len(heap'[call'.inst].memory) = Len(heap[call'.inst].memory) + 2]_vars

\* the cached finance_lead object refused a second request and holds the
\* two messages of the first refusal before those of the second
C31_Witness ==
    /\ call.op = "query_agent"
    /\ call.ran
    /\ call.agent_type = "finance_lead"
    /\ ~call.constructed
    /\ ~call.run.verdict
    /\ Len(heap[call.inst].memory) = 4
    /\ heap[call.inst].memory[2] =
          [role |-> "assistant", content |-> refusal_message("FinanceLeadAgent")]
    /\ heap[call.inst].memory[4] = heap[call.inst].memory[2]

\* the Manus objects
ManusObjects(h) == {m \in DOMAIN h : h[m].cls = "Manus"}

\* C34: a specialist whose run raised stays in the registry of the tool
\* that called it. A call of the tool for a cached type runs the cached
\* object and constructs none, so the next call for the type of a failed
\* run gets the object of that run; no operation but a cleanup takes an
\* entry out of a tool's registry; and the cleanup of the tool cleans every
\* object its registry holds, the one of the failed run among them.
C34_FailedRunStaysCached ==
    [][/\ (call'.op = "call_agent" /\ call'.ran /\ call'.run.raised) =>
             /\ Has(heap'[call'.reg].tool, call'.agent_type)
             /\ Get(heap'[call'.reg].tool, call'.agent_type) = call'.inst
       /\ (call'.op = "call_agent" /\ Has(heap[call'.reg].tool, call'.agent_type)) =>
             /\ call'.ran
             /\ ~call'.constructed
             /\ call'.inst = Get(heap[call'.reg].tool, call'.agent_type)
       /\ (/\ call.op = "call_agent" /\ call.ran /\ call.run.raised
           /\ call'.op = "call_agent" /\ call'.agent_type = call.agent_type) =>
             call'.inst = call.inst /\ ~call'.constructed
       /\ call'.op \notin {"tool_cleanup", "cleanup_agents"} =>
             \A m \in ManusObjects(heap) : \A k \in DOMAIN heap[m].tool :
                heap'[m].tool[k] = heap[m].tool[k]
       /\ call'.op = "tool_cleanup" =>
             /\ \A k \in DOMAIN heap[call'.reg].tool :
                   heap[call'.reg].tool[k].inst \in call'.cleaned
             /\ (call.op = "call_agent" /\ call.ran /\ call.run.raised) =>
                   call.inst \in call'.cleaned]_vars

\* the law specialist's run raised twice: the second call ran the object of
\* the first and constructed none
C34_Witness ==
    /\ call.op = "call_agent"
    /\ call.ran
    /\ call.agent_type = "law_lead"
    /\ call.run.raised
    /\ ~call.constructed
    /\ Len(heap[call.inst].memory) = 2
    /\ heap[call.inst].memory[1].role = "user"
    /\ heap[call.inst].memory[2].role = "user"
    /\ Get(heap[call.reg].tool, "law_lead") = call.inst

\* C35: a request with a query and an agent_type that is none of the ten
\* adds no entry and constructs nothing; get_agent raises the lookup error,
\* which leaves run_agent, outside whose try block the lookup stands: no
\* agent runs, no "Error: ..." text is returned, the request fails.
C35_UnknownTypeRaises ==
    [][(/\ call'.op = "query_agent"
        /\ call'.http # 400
        /\ call'.agent_type \notin KnownTypes) =>
          /\ agents' = agents
          /\ heap' = heap
          /\ call'.raised
          /\ call'.http = 500
          /\ ~call'.ran
          /\ ~call'.constructed
          /\ call'.inst = 0
          /\ ~StartsWith(call'.result, "Error: ")]_vars

\* a request for the type "nonexistent" failed while finance_lead was cached
C35_Witness ==
    /\ call.op = "query_agent"
    /\ call.agent_type = "nonexistent"
    /\ call.query # ""
    /\ call.raised
    /\ call.http = 500
    /\ Keys(agents) = {"finance_lead"}

\* C36: when the cleanup of t's instance raises in the cleanup endpoint
\* called with the cached type t, the endpoint fails with it, no status is
\* returned and the registry is as before, t's entry included; the cleanup
\* was invoked on the instance. A request for t that comes next runs on that
\* same instance and constructs none.
C36_FailedReleaseKeepsEntry ==
    [][/\ (/\ call'.op = "cleanup_agents"
           /\ call'.agent_type # ""
           /\ Has(agents, call'.agent_type)
           /\ Get(agents, call'.agent_type) \in call'.failed) =>
             /\ call'.raised
             /\ call'.http = 500
             /\ call'.result = ""
             /\ agents' = agents
             /\ released' = released
             /\ heap'[Get(agents, call'.agent_type)].cleanups =
                   heap[Get(agents, call'.agent_type)].cleanups + 1
       /\ (/\ call.op = "cleanup_agents"
           /\ call.raised
           /\ call.agent_type # ""
           /\ Has(agents, call.agent_type)
           /\ call'.op = "query_agent"
           /\ call'.http # 400
           /\ call'.agent_type = call.agent_type) =>
             /\ call'.ran
             /\ ~call'.constructed
             /\ call'.inst = Get(agents, call.agent_type)
             /\ call'.inst \in call.failed
             /\ heap'[call'.inst].cleanups = heap[call'.inst].cleanups
             /\ heap'[call'.inst].cleanups >= 1]_vars

\* a request for finance_lead ran on the cached object whose cleanup had
\* been invoked, and had raised, in a release that removed nothing
C36_Witness ==
    /\ call.op = "query_agent"
    /\ call.ran
    /\ call.agent_type = "finance_lead"
    /\ ~call.constructed
    /\ heap[call.inst].cleanups = 1
    /\ released = {}
    /\ Get(agents, "finance_lead") = call.inst

\* ---------------------------------------------------------------------
\* Manus.think: the guidance of one step (app/agent/manus.py)
\* ---------------------------------------------------------------------

\* the longest memory a step starts from
MaxThinkMemory == 7

\* NEXT_STEP_PROMPT, by its first sentence
NEXT_STEP_PROMPT ==
    "Based on user needs, proactively select the most appropriate tool or combination of tools."

\* BrowserUseTool().name
BrowserUseToolName == "browser_use"

\* the texts browser_context_helper.format_next_step_prompt() can give: they
\* depend on the page the browser is on
BrowserPrompts == {"browser at https://a.example", "browser at https://b.example"}

\* outcomes of the helper: it gives a text or raises
Helpers ==
    {[raises |-> FALSE, text |-> t] : t \in BrowserPrompts}
       \cup {[raises |-> TRUE, text |-> ""]}

\* an assistant message with its tool calls, by the names of the functions
tool_call_message(names) ==
    [role |-> "assistant", content |-> "", tool_calls |-> names]

tool_message(content) == [role |-> "tool", content |-> content]

\* outcomes of the step of the base class: the model's answer (with the
\* tool calls it asks for) or an exception
Steps ==
    {[raises |-> FALSE, message |-> tool_call_message(ns)] :
        ns \in {<<>>, <<"python_execute">>, <<BrowserUseToolName>>,
                <<"call_agent", BrowserUseToolName>>}}
       \cup {[raises |-> TRUE, message |-> tool_call_message(<<>>)]}

\* a Manus object with the guidance it is constructed with
new_manus ==
    [cls |-> "Manus", cleanups |-> 0, memory |-> <<>>, tool |-> <<>>,
     next_step_prompt |-> NEXT_STEP_PROMPT]

\* self.memory.messages[-3:] if self.memory.messages else []
recent_messages_all(messages) == messages

recent_messages(messages) ==
    IF messages = <<>> THEN <<>>
    ELSE SubSeq(messages,
                IF Len(messages) > 3 THEN Len(messages) - 2 ELSE 1,
                Len(messages))

\* msg.tool_calls of a message: None when the message has none
tool_calls_of(msg) ==
    IF "tool_calls" \in DOMAIN msg THEN msg.tool_calls ELSE <<>>

\* any(tc.function.name == BrowserUseTool().name for msg in recent_messages
\*     if msg.tool_calls for tc in msg.tool_calls)
browser_in_use(messages) ==
    \E i \in DOMAIN recent_messages(messages) :
       \E k \in DOMAIN tool_calls_of(recent_messages(messages)[i]) :
          tool_calls_of(recent_messages(messages)[i])[k] = BrowserUseToolName

\* ToolCallAgent.think: it adds the guidance in effect as a user message,
\* asks the model and adds the answer; it raises when the model does
super_think(self, step) ==
    IF step.raises
    THEN [self |-> self, raised |-> TRUE, result |-> FALSE]
    ELSE [self |-> [self EXCEPT !.memory =
                       @ \o <<[role |-> "user", content |-> self.next_step_prompt],
                              step.message>>],
          raised |-> FALSE,
          result |-> step.message.tool_calls # <<>>]

\* Manus.think: prompt is the guidance in effect during the step of the base
\* class, stepped tells whether that step was reached
Manus_think(self, helper, step) ==
    LET original_prompt == self.next_step_prompt
        in_use == browser_in_use(self.memory)
        armed == IF in_use /\ ~helper.raises
                 THEN [self EXCEPT !.next_step_prompt = helper.text]
                 ELSE self
        r == super_think(armed, step)
    IN  IF in_use /\ helper.raises
        THEN [self |-> self, raised |-> TRUE, result |-> FALSE,
              stepped |-> FALSE, prompt |-> ""]
        ELSE IF r.raised
        THEN [self |-> r.self, raised |-> TRUE, result |-> FALSE,
              stepped |-> TRUE, prompt |-> armed.next_step_prompt]
        ELSE [self |-> [r.self EXCEPT !.next_step_prompt = original_prompt],
              raised |-> FALSE, result |-> r.result,
              stepped |-> TRUE, prompt |-> armed.next_step_prompt]

\* the requests given to Manus.run: None adds no message
ThinkRequests == {"", "open the page"}

InitThink ==
    /\ heap = <<new_manus>>
    /\ agents = <<[type |-> "manus", inst |-> 1]>>
    /\ call = Idle
    /\ lookups = {}
    /\ released = {}
    /\ workers = <<>>

\* Manus.run starts on the cached object: the request, when there is one,
\* is added to the memory
think_run(request) ==
    /\ \/ call.op = "init"
       \/ call.op = "think" /\ (call.raised \/ ~call.run.result)
    /\ Len(heap[1].memory) < MaxThinkMemory
    /\ heap' = [heap EXCEPT ![1].memory =
                   IF request = "" THEN @
                   ELSE Append(@, [role |-> "user", content |-> request])]
    /\ call' = [Idle EXCEPT !.op = "run", !.inst = 1, !.query = request]
    /\ UNCHANGED <<agents, lookups, released, workers>>

\* one think step of the run
think(helper, step) ==
    /\ call.op \in {"run", "act"}
    /\ Len(heap[1].memory) < MaxThinkMemory
    /\ \E r \in {Manus_think(heap[1], helper, step)} :
          /\ heap' = [heap EXCEPT ![1] = r.self]
          /\ call' = [Idle EXCEPT !.op = "think", !.inst = 1,
                         !.raised = r.raised, !.ran = r.stepped,
                         !.result = r.prompt,
                         !.run = [result |-> r.result,
                                  browser_in_use |-> browser_in_use(heap[1].memory)]]
    /\ UNCHANGED <<agents, lookups, released, workers>>

\* the act step after a think step that asked for tools: the result of the
\* tools is added to the memory
act ==
    /\ call.op = "think"
    /\ ~call.raised
    /\ call.run.result
    /\ heap' = [heap EXCEPT ![1].memory = Append(@, tool_message("observed"))]
    /\ call' = [Idle EXCEPT !.op = "act", !.inst = 1]
    /\ UNCHANGED <<agents, lookups, released, workers>>

NextThink ==
    \/ \E request \in ThinkRequests : think_run(request)
    \/ \E helper \in Helpers, step \in Steps : think(helper, step)
    \/ act

SpecThink == InitThink /\ [][NextThink]_vars

\* C22: after every think step, whether the step of the base class returned
\* or raised, next_step_prompt has the value it had before the step.
C22_PromptRestored ==
    [][call'.op = "think" =>
          heap'[1].next_step_prompt = heap[1].next_step_prompt]_vars

\* C30: the step of the base class runs with the helper's text exactly when
\* one of the last three messages has a tool call named browser_use, and
\* with the guidance the object had before the step otherwise; so it does
\* with an empty memory and when the browser calls are all older.
LastThree(messages) ==
    {i \in DOMAIN messages : i > Len(messages) - 3}

BrowserCallAt(messages, i) ==
    /\ "tool_calls" \in DOMAIN messages[i]
    /\ \E k \in DOMAIN messages[i].tool_calls :
          messages[i].tool_calls[k] = "browser_use"

C30_BrowserWindow ==
    [][(call'.op = "think" /\ call'.ran) =>
          LET before == heap[1].memory
              recent == \E i \in LastThree(before) : BrowserCallAt(before, i)
          IN  /\ call'.run.browser_in_use = recent
              /\ recent => call'.result \in BrowserPrompts
              /\ ~recent => call'.result = heap[1].next_step_prompt
              /\ before = <<>> => call'.result = heap[1].next_step_prompt]_vars

\* a step that ran with the original guidance although the memory has a
\* browser call, six messages back, and the step before ran with the
\* helper's text
C30_Witness ==
    /\ call.op = "think"
    /\ call.ran
    /\ ~call.raised
    /\ call.result = NEXT_STEP_PROMPT
    /\ Len(heap[1].memory) = 8
    /\ BrowserCallAt(heap[1].memory, 2)
    /\ heap[1].memory[4].content \in BrowserPrompts
    /\ heap[1].memory[7].content = NEXT_STEP_PROMPT

\* ---------------------------------------------------------------------
\* Requests on the threads of the pool (api_server.py): get_agent and the
\* refusal path of run, statement by statement
\* ---------------------------------------------------------------------

\* the requests submitted to the pool in one behaviour
MaxRaceRequests == 3

\* the threads of the pool that take requests here (max_workers=10)
RaceWorkers == {1, 2}

RaceTypes == {"tech_lead", "finance_lead"}

\* the query of the requests a thread takes: the two threads' user messages
\* differ
RaceQueries == <<"qA", "qB">>

RaceGates == {Reply("YES"), Reply("NO")}

RaceLoops == {[raises |-> FALSE, content |-> "done", steps |-> 1]}

IdleWorker ==
    [pc |-> "idle", agent_type |-> "", query |-> "", miss |-> FALSE,
     made |-> 0, inst |-> 0, verdict |-> FALSE, user_at |-> 0,
     refusal_at |-> 0, served |-> 0]

Submitted == SumOver([w \in RaceWorkers |-> workers[w].served], RaceWorkers)

\* a lock around the test and the store: the type counts as cached while
\* another thread is constructing it
cache_miss_locked(d, ws, w, agent_type) ==
    /\ ~Has(d, agent_type)
    /\ ~\E o \in DOMAIN ws :
          /\ o # w
          /\ ws[o].agent_type = agent_type
          /\ ws[o].pc \in {"construct", "store"}

\* if agent_type not in agents, seen by thread w
cache_miss(d, ws, w, agent_type) == ~Has(d, agent_type)

InitRace ==
    /\ heap = <<>>
    /\ agents = <<>>
    /\ call = Idle
    /\ lookups = {}
    /\ released = {}
    /\ workers = [w \in RaceWorkers |-> IdleWorker]

\* executor.submit(run_agent, agent_type, query): a free thread takes it
race_submit(w, agent_type, query) ==
    /\ workers[w].pc \in {"idle", "done"}
    /\ Submitted < MaxRaceRequests
    /\ workers' = [workers EXCEPT ![w] =
                      [IdleWorker EXCEPT !.pc = "get_agent",
                                         !.agent_type = agent_type,
                                         !.query = query,
                                         !.served = workers[w].served + 1]]
    /\ UNCHANGED <<heap, agents, call, lookups, released>>

\* get_agent, the test
race_test(w) ==
    /\ workers[w].pc = "get_agent"
    /\ \E miss \in {cache_miss(agents, workers, w, workers[w].agent_type)} :
          workers' = [workers EXCEPT ![w].miss = miss,
                                     ![w].pc = IF miss THEN "construct" ELSE "return"]
    /\ UNCHANGED <<heap, agents, call, lookups, released>>

\* get_agent, the right-hand side of the assignment: the constructor
race_construct(w) ==
    /\ workers[w].pc = "construct"
    /\ heap' = Append(heap, new_agent(OutwardClass(workers[w].agent_type)))
    /\ workers' = [workers EXCEPT ![w].made = Len(heap) + 1, ![w].pc = "store"]
    /\ UNCHANGED <<agents, call, lookups, released>>

\* get_agent, the assignment to agents[agent_type]
race_store(w) ==
    /\ workers[w].pc = "store"
    /\ agents' = Put(agents, workers[w].agent_type, workers[w].made)
    /\ workers' = [workers EXCEPT ![w].pc = "return"]
    /\ UNCHANGED <<heap, call, lookups, released>>

\* get_agent, return agents[agent_type]: the registry is read again
race_return(w) ==
    /\ workers[w].pc = "return"
    /\ Has(agents, workers[w].agent_type)
    /\ workers' = [workers EXCEPT ![w].inst = Get(agents, workers[w].agent_type),
                                  ![w].pc = "gate"]
    /\ UNCHANGED <<heap, agents, call, lookups, released>>

\* run, the relevance check: the thread's own loop waits for the verdict
race_gate(w, gate) ==
    /\ workers[w].pc = "gate"
    /\ \E r \in {relevance_check(heap[workers[w].inst].memory, workers[w].query, gate)} :
          workers' = [workers EXCEPT ![w].verdict = r.verdict,
                                     ![w].pc = IF r.verdict THEN "loop"
                                               ELSE "refuse_user"]
    /\ UNCHANGED <<heap, agents, call, lookups, released>>

\* run, self.memory.add_message(Message.user_message(request))
race_refuse_user(w) ==
    /\ workers[w].pc = "refuse_user"
    /\ heap' = [heap EXCEPT ![workers[w].inst].memory =
                   add_message(@, user_message(workers[w].query))]
    /\ workers' = [workers EXCEPT
                      ![w].user_at = Len(heap[workers[w].inst].memory) + 1,
                      ![w].pc = "refuse_reply"]
    /\ UNCHANGED <<agents, call, lookups, released>>

\* run, self.memory.add_message(Message.assistant_message(refusal_message))
\* and the return of the refusal
race_refuse_reply(w) ==
    /\ workers[w].pc = "refuse_reply"
    /\ heap' = [heap EXCEPT ![workers[w].inst].memory =
                   add_message(@, assistant_message(
                                     refusal_message(heap[workers[w].inst].cls)))]
    /\ workers' = [workers EXCEPT
                      ![w].refusal_at = Len(heap[workers[w].inst].memory) + 1,
                      ![w].pc = "done"]
    /\ UNCHANGED <<agents, call, lookups, released>>

\* run, the reasoning loop of an accepted request
race_loop(w, loop) ==
    /\ workers[w].pc = "loop"
    /\ \E r \in {run_after_gate(heap[workers[w].inst].cls,
                                heap[workers[w].inst].memory,
                                workers[w].query, TRUE, loop)} :
          heap' = [heap EXCEPT ![workers[w].inst].memory = r.memory]
    /\ workers' = [workers EXCEPT ![w].pc = "done"]
    /\ UNCHANGED <<agents, call, lookups, released>>

NextRace ==
    \/ \E w \in RaceWorkers, agent_type \in RaceTypes :
          race_submit(w, agent_type, RaceQueries[w])
    \/ \E w \in RaceWorkers : race_test(w)
    \/ \E w \in RaceWorkers : race_construct(w)
    \/ \E w \in RaceWorkers : race_store(w)
    \/ \E w \in RaceWorkers : race_return(w)
    \/ \E w \in RaceWorkers, gate \in RaceGates : race_gate(w, gate)
    \/ \E w \in RaceWorkers : race_refuse_user(w)
    \/ \E w \in RaceWorkers : race_refuse_reply(w)
    \/ \E w \in RaceWorkers, loop \in RaceLoops : race_loop(w, loop)

SpecRace == InitRace /\ [][NextRace]_vars

\* C24: get_agent has no mutual exclusion: a thread's test misses whenever
\* the type is not stored, also while another thread is between its own
\* miss and its store for that type; a thread that missed constructs an
\* object of its own; the registry keeps one entry a type, so of two objects
\* constructed for a type at most one is cached.
C24_RaceToCreate ==
    [][\A w \in RaceWorkers :
          /\ (workers[w].pc = "get_agent" /\ workers'[w].pc # "get_agent") =>
                /\ workers'[w].miss = (workers[w].agent_type \notin Keys(agents))
                /\ workers'[w].pc = IF workers'[w].miss THEN "construct" ELSE "return"
          /\ (workers[w].pc = "construct" /\ workers'[w].pc = "store") =>
                /\ Len(heap') = Len(heap) + 1
                /\ workers'[w].made = Len(heap')
                /\ \A o \in RaceWorkers \ {w} : workers'[o].made # workers'[w].made
          /\ \A t \in RaceTypes :
                Cardinality({i \in DOMAIN agents' : agents'[i].type = t}) <= 1]_vars

\* two requests for one type that both missed, constructed an object each
\* and run each on its own; one of the two objects is cached
C24_Witness ==
    /\ workers[1].agent_type = workers[2].agent_type
    /\ workers[1].miss /\ workers[2].miss
    /\ workers[1].inst # 0 /\ workers[2].inst # 0
    /\ workers[1].inst = workers[1].made
    /\ workers[2].inst = workers[2].made
    /\ workers[1].inst # workers[2].inst
    /\ workers[1].pc \in {"gate", "loop", "refuse_user", "refuse_reply"}
    /\ workers[2].pc \in {"gate", "loop", "refuse_user", "refuse_reply"}
    /\ Cardinality({i \in DOMAIN agents :
                       agents[i].inst \in {workers[1].inst, workers[2].inst}}) = 1

\* C25: each refusal in an object's memory comes right after the user
\* message of the same request, whatever the interleaving of the threads.
C25_RefusalAfterOwnUser ==
    \A w \in RaceWorkers :
       workers[w].refusal_at # 0 =>
          /\ workers[w].refusal_at = workers[w].user_at + 1
          /\ heap[workers[w].inst].memory[workers[w].refusal_at - 1] =
                user_message(workers[w].query)

\* the bodies of the cleanup requests that come while the pool is at work
RaceCleanupData == {[agent_type |-> t] : t \in RaceTypes} \cup {<<>>}

\* POST /api/cleanup, handled on the thread of its own request while the
\* threads of the pool are where they are
race_cleanup(data, fails) ==
    /\ MayCleanup
    /\ \E r \in {cleanup_agents(heap, agents, data, fails)} :
          /\ heap' = r.heap
          /\ agents' = r.agents
          /\ released' = Released(r.heap, r.agents)
    /\ UNCHANGED <<call, lookups, workers>>

\* get_agent, return agents[agent_type] when the entry has gone since the
\* test or the store: the lookup raises and the request fails
race_return_missing(w) ==
    /\ workers[w].pc = "return"
    /\ ~Has(agents, workers[w].agent_type)
    /\ workers' = [workers EXCEPT ![w].pc = "failed"]
    /\ UNCHANGED <<heap, agents, call, lookups, released>>

\* a thread that failed takes the next request
race_resubmit(w, agent_type, query) ==
    /\ workers[w].pc = "failed"
    /\ Submitted < MaxRaceRequests
    /\ workers' = [workers EXCEPT ![w] =
                      [IdleWorker EXCEPT !.pc = "get_agent",
                                         !.agent_type = agent_type,
                                         !.query = query,
                                         !.served = workers[w].served + 1]]
    /\ UNCHANGED <<heap, agents, call, lookups, released>>

NextRaceCleanup ==
    \/ NextRace
    \/ \E data \in RaceCleanupData, fails \in {{}, DOMAIN heap} :
          race_cleanup(data, fails)
    \/ \E w \in RaceWorkers : race_return_missing(w)
    \/ \E w \in RaceWorkers, agent_type \in RaceTypes :
          race_resubmit(w, agent_type, RaceQueries[w])

SpecRaceCleanup == InitRace /\ [][NextRaceCleanup]_vars

\* the threads whose run on object i has begun and not ended
InFlight(i) ==
    {w \in RaceWorkers :
        /\ workers[w].inst = i
        /\ workers[w].pc \in {"gate", "loop", "refuse_user", "refuse_reply"}}

\* C37: the cleanup endpoint never cleans and removes an object on which a
\* run is in flight on a thread of the pool.
C37_NoCleanupInFlight ==
    [][\A i \in DOMAIN heap :
          InFlight(i) # {} =>
             ~(/\ heap'[i].cleanups > heap[i].cleanups
               /\ \E k \in DOMAIN agents : agents[k].inst = i
               /\ ~\E k \in DOMAIN agents' : agents'[k].inst = i)]_vars

\* ---------------------------------------------------------------------
\* Two Manus objects, each with the AgentCallTool of its own tool collection
\* ---------------------------------------------------------------------

\* the objects of one behaviour: the two Manus objects and the specialists
\* their tools construct
MaxToolInst == 5

\* the Manus objects: available_tools is built by a default_factory, so each
\* Manus() has an AgentCallTool() of its own
Generalists == {1, 2}

ToolsTypes == {"finance_lead", "law_lead"}

ToolsArgs == {[agent_type |-> t, query |-> q] : t \in ToolsTypes, q \in Queries}

\* the second Manus object is one the registry does not hold: the loser of a
\* race to create, or the object of a script
InitTools ==
    /\ heap = <<new_agent("Manus"), new_agent("Manus")>>
    /\ agents = <<[type |-> "manus", inst |-> 1]>>
    /\ call = Idle
    /\ lookups = {}
    /\ released = {}
    /\ workers = <<>>

\* the tool of Manus object m is called
tools_call_agent(m, args, gate, loop) ==
    /\ MayRun
    /\ \E r \in {_run(heap, m, args, gate, loop)} :
          /\ Len(r.heap) <= MaxToolInst
          /\ heap' = r.heap
          /\ call' = [Idle EXCEPT !.op = "call_agent", !.reg = m,
                         !.agent_type = args.agent_type, !.query = r.full_query,
                         !.args = args, !.raised = r.raised,
                         !.result = r.result, !.inst = r.inst,
                         !.constructed = r.constructed, !.ran = r.ran, !.run = r.run,
                         !.gate = r.gate, !.loop = r.loop]
    /\ UNCHANGED <<agents, lookups, released, workers>>

\* the cleanup of the tool of Manus object m
tools_cleanup(m, fails) ==
    /\ MayCleanup
    /\ \E r \in {AgentCallTool_cleanup(heap, m, fails)} :
          /\ heap' = r.heap
          /\ call' = [Idle EXCEPT !.op = "tool_cleanup", !.reg = m,
                         !.raised = r.raised,
                         !.cleaned = CleanedBetween(heap, r.heap),
                         !.failed = CleanedBetween(heap, r.heap) \cap fails]
    /\ UNCHANGED <<agents, lookups, released, workers>>

NextTools ==
    \/ \E m \in Generalists, args \in ToolsArgs, gate \in Gates, loop \in Loops :
          tools_call_agent(m, args, gate, loop)
    \/ \E m \in Generalists, fails \in SUBSET DOMAIN heap :
          tools_cleanup(m, fails)

SpecTools == InitTools /\ [][NextTools]_vars

\* the specialists cached by the tool of Manus object m
CachedBy(h, m) == {h[m].tool[i].inst : i \in DOMAIN h[m].tool}

\* C29: each AgentCallTool has a registry of its own. A call of one tool
\* returns a specialist no other tool caches and changes no other tool's
\* registry; the cleanup of one tool cleans only its own specialists and
\* leaves the registries of the other tools, and their specialists, as they
\* are; no specialist is ever cached by two tools.
C29_ToolScopedRegistry ==
    [][/\ (call'.op = "call_agent" /\ call'.inst # 0) =>
             /\ call'.inst \in CachedBy(heap', call'.reg)
             /\ \A o \in Generalists \ {call'.reg} :
                   /\ call'.inst \notin CachedBy(heap, o)
                   /\ heap'[o] = heap[o]
       /\ call'.op = "tool_cleanup" =>
             /\ call'.cleaned = CachedBy(heap, call'.reg)
             /\ heap'[call'.reg].tool = <<>>
             /\ \A o \in Generalists \ {call'.reg} :
                   /\ heap'[o] = heap[o]
                   /\ \A i \in CachedBy(heap, o) : heap'[i] = heap[i]
       /\ \A m \in Generalists, o \in Generalists :
             m # o => CachedBy(heap', m) \cap CachedBy(heap', o) = {}]_vars

\* both tools cache a finance_lead specialist of their own, and the cleanup
\* of the first tool has just left the second's in place and not cleaned
C29_Witness ==
    /\ call.op = "tool_cleanup"
    /\ call.reg = 1
    /\ call.cleaned # {}
    /\ heap[1].tool = <<>>
    /\ Has(heap[2].tool, "finance_lead")
    /\ heap[Get(heap[2].tool, "finance_lead")].cleanups = 0
    /\ \E i \in call.cleaned : heap[i].cls = "FinanceLeadAgent"

\* ---------------------------------------------------------------------
\* One run of a Manus object, with execute_tool step by step
\* (app/agent/manus.py)
\* ---------------------------------------------------------------------

\* the tool calls the model asks for in a step
Commands ==
    {[name |-> "call_agent", arguments |-> a] : a \in ToolsArgs}
       \cup {[name |-> "python_execute", arguments |-> <<>>]}

\* what a think step can come to: the model asks for a tool, gives its
\* final answer, or raises
Decisions ==
    {[raises |-> FALSE, commands |-> <<c>>] : c \in Commands}
       \cup {[raises |-> FALSE, commands |-> <<>>], [raises |-> TRUE, commands |-> <<>>]}

StepOf(decision) ==
    [raises |-> decision.raises,
     message |-> tool_call_message(
                    [i \in DOMAIN decision.commands |-> decision.commands[i].name])]

\* the messages in the memories of the specialists
SpecialistMessages(h) ==
    SumOver([i \in DOMAIN h |-> IF h[i].cls = "Manus" THEN 0 ELSE Len(h[i].memory)],
            DOMAIN h)

\* ToolCallAgent.execute_tool: the tool of that name is awaited with the
\* arguments of the command, and its result is the observation
super_execute_tool(h, m, command, gate, loop) ==
    IF command.name = "call_agent"
    THEN _run(h, m, command.arguments, gate, loop)
    ELSE [heap |-> h, raised |-> FALSE, result |-> "observed", inst |-> 0,
          constructed |-> FALSE, ran |-> FALSE, run |-> NoRun, full_query |-> "",
          gate |-> NoGate, loop |-> NoLoop]

\* the call of the base class not awaited: execute_tool goes on at once
execute_tool_resumes_at_once(op) == op \in {"pre_marker", "entered", "tool_returned"}

\* result = await super().execute_tool(command): execute_tool goes on when
\* the call has returned
execute_tool_resumes(op) == op = "tool_returned"

InitDelegate ==
    /\ heap = <<new_manus>>
    /\ agents = <<[type |-> "manus", inst |-> 1]>>
    /\ call = [Idle EXCEPT !.op = "run", !.inst = 1]
    /\ lookups = {}
    /\ released = {}
    /\ workers = <<>>

\* a think step of the run
delegate_think(helper, decision) ==
    /\ call.op \in {"run", "executed"}
    /\ Len(heap[1].memory) < MaxThinkMemory
    /\ \E r \in {Manus_think(heap[1], helper, StepOf(decision))} :
          /\ heap' = [heap EXCEPT ![1] = r.self]
          /\ call' = [Idle EXCEPT !.op = IF r.raised \/ ~r.result
                                         THEN "finished" ELSE "think",
                         !.inst = 1, !.raised = r.raised,
                         !.args = IF r.raised THEN <<>> ELSE decision.commands]
    /\ UNCHANGED <<agents, lookups, released, workers>>

\* execute_tool up to the call of the base class: the marker before it
execute_tool_enter ==
    /\ call.op = "think"
    /\ call' = [call EXCEPT !.op = IF call.args[1].name = "call_agent"
                                   THEN "pre_marker" ELSE "entered"]
    /\ UNCHANGED <<heap, agents, lookups, released, workers>>

\* the call of the base class, with the tool it runs
execute_tool_super(gate, loop) ==
    /\ call.op \in {"pre_marker", "entered"}
    /\ SpecialistMessages(heap) < MaxMessages
    /\ \E r \in {super_execute_tool(heap, 1, call.args[1], gate, loop)} :
          /\ Len(r.heap) <= MaxToolInst
          /\ heap' = r.heap
          /\ call' = [call EXCEPT !.op = "tool_returned", !.result = r.result,
                         !.reg = 1, !.inst = r.inst, !.constructed = r.constructed,
                         !.ran = r.ran, !.run = r.run, !.query = r.full_query,
                         !.gate = r.gate, !.loop = r.loop]
    /\ UNCHANGED <<agents, lookups, released, workers>>

\* execute_tool after the call of the base class: the marker after it
execute_tool_exit ==
    /\ call.op \in {"pre_marker", "entered", "tool_returned"}
    /\ execute_tool_resumes(call.op)
    /\ call.args[1].name = "call_agent"
    /\ call' = [call EXCEPT !.op = "post_marker"]
    /\ UNCHANGED <<heap, agents, lookups, released, workers>>

\* return result: the observation is added to the memory and the run goes
\* on with its next step
execute_tool_return ==
    /\ \/ call.op = "post_marker"
       \/ /\ call.op \in {"entered", "tool_returned"}
          /\ execute_tool_resumes(call.op)
          /\ call.args[1].name # "call_agent"
    /\ heap' = [heap EXCEPT ![1].memory = Append(@, tool_message(call.result))]
    /\ call' = [call EXCEPT !.op = "executed"]
    /\ UNCHANGED <<agents, lookups, released, workers>>

NextDelegate ==
    \/ \E helper \in Helpers, decision \in Decisions : delegate_think(helper, decision)
    \/ execute_tool_enter
    \/ \E gate \in Gates, loop \in Loops : execute_tool_super(gate, loop)
    \/ execute_tool_exit
    \/ execute_tool_return

SpecDelegate == InitDelegate /\ [][NextDelegate]_vars

\* the objects other than the Manus object, and its tool's registry
Specialists(h) == [i \in DOMAIN h \ {1} |-> h[i]]

\* C23: a delegation is synchronous. Between the marker before a call_agent
\* command and the marker after it lies the whole call of the tool: the
\* specialist is looked up, checked and run in that interval and nowhere
\* else; the marker after it and the return of execute_tool come only when
\* the tool has returned, with the tool's result; and the run takes no think
\* step while execute_tool is open.
C23_DelegationSynchronous ==
    [][/\ call'.op \in {"think", "finished"} => call.op \in {"run", "executed"}
       /\ (Specialists(heap') # Specialists(heap) \/ heap'[1].tool # heap[1].tool) =>
             /\ call.op = "pre_marker"
             /\ call'.op = "tool_returned"
       /\ (call'.op = "tool_returned" /\ call.args[1].name = "call_agent") =>
             call.op = "pre_marker"
       /\ call'.op = "post_marker" =>
             /\ call.op = "tool_returned"
             /\ call.args[1].name = "call_agent"
             /\ call'.result = call.result
             /\ heap' = heap
       /\ call'.op = "executed" =>
             /\ call.op = IF call.args[1].name = "call_agent"
                          THEN "post_marker" ELSE "tool_returned"
             /\ heap'[1].memory[Len(heap'[1].memory)] =
                   [role |-> "tool", content |-> call.result]
             /\ Specialists(heap') = Specialists(heap)]_vars

\* a delegation to finance_lead is over: the marker after it is out, the
\* specialist was constructed, checked and run, and the result is the tool's
C23_Witness ==
    /\ call.op = "post_marker"
    /\ call.args[1].arguments.agent_type = "finance_lead"
    /\ call.constructed
    /\ call.run.gate_calls = 1
    /\ call.run.loop_calls = 1
    /\ Len(heap) = 2
    /\ heap[2].memory # <<>>
    /\ Contains(call.result, "=== Results from Financial Analysis Specialist")

\* ---------------------------------------------------------------------
\* The runs that are open at one time: a Manus run and the runs its tool
\* calls start (app/agent/*.py, available_tools)
\* ---------------------------------------------------------------------

\* every class given the tools of Manus
available_tools_of_manus(cls) ==
    {"python_execute", "browser_use", "str_replace_editor", "call_agent", "terminate"}

\* available_tools: the names of the tools in the collection of the class
available_tools(cls) ==
    IF cls = "Manus"
    THEN {"python_execute", "browser_use", "str_replace_editor", "call_agent",
          "terminate"}
    ELSE {"terminate"}

\* the collection of the class runs a tool only under a name it holds
tool_map_has(cls, name) == name \in available_tools(cls)

\* the types the tool is asked for here: the eight gated ones, "manus" and
\* a name nobody knows
NestTypes ==
    {"data_eng", "product_manager", "tech_lead", "finance_lead", "law_lead",
     "seo_lead", "marketing_lead", "hr_lead", "manus", "nonexistent"}

\* the tool calls the model of the running agent asks for
NestCommands ==
    {[name |-> "call_agent", arguments |-> [agent_type |-> t, query |-> q]] :
        t \in NestTypes, q \in Queries}
       \cup {[name |-> "terminate", arguments |-> <<>>]}

\* the frame of the Manus run
ManusFrame == [inst |-> 1, owner |-> 0, command |-> <<>>, gate |-> NoGate]

InitNest ==
    /\ heap = <<new_agent("Manus")>>
    /\ agents = <<[type |-> "manus", inst |-> 1]>>
    /\ call = [Idle EXCEPT !.op = "run", !.inst = 1]
    /\ lookups = {}
    /\ released = {}
    /\ workers = <<ManusFrame>>

\* the agent whose run is the innermost open one
Running == workers[Len(workers)].inst

\* the running agent's model asks for a tool. A name outside the agent's
\* collection is answered with an error and runs nothing. call_agent goes
\* to the agent's own AgentCallTool: an unknown type and a refused query
\* end the call at once, an accepted query opens the specialist's run.
nest_execute_tool(command, gate) ==
    /\ SpecialistMessages(heap) < MaxMessages
    /\ IF ~tool_map_has(heap[Running].cls, command.name)
       THEN /\ call' = [Idle EXCEPT !.op = "execute_tool", !.reg = Running,
                           !.args = <<command>>,
                           !.result = "Error: Unknown tool '" \o command.name \o "'"]
            /\ UNCHANGED <<heap, workers>>
       ELSE IF command.name # "call_agent"
       THEN /\ call' = [Idle EXCEPT !.op = "execute_tool", !.reg = Running,
                           !.args = <<command>>, !.result = "observed"]
            /\ UNCHANGED <<heap, workers>>
       ELSE \E r \in {_run(heap, Running, command.arguments, gate, NoLoop)} :
               /\ Len(r.heap) <= MaxToolInst
               /\ IF r.ran /\ r.run.verdict
                  THEN /\ heap' = _get_agent(heap, Running,
                                             command.arguments.agent_type).heap
                       /\ workers' = Append(workers,
                                       [inst |-> r.inst, owner |-> Running,
                                        command |-> command, gate |-> gate])
                       /\ call' = [Idle EXCEPT !.op = "run", !.reg = Running,
                                      !.args = <<command>>, !.inst = r.inst,
                                      !.agent_type = command.arguments.agent_type,
                                      !.constructed = r.constructed]
                  ELSE /\ heap' = r.heap
                       /\ workers' = workers
                       /\ call' = [Idle EXCEPT !.op = "call_agent", !.reg = Running,
                                      !.args = <<command>>, !.inst = r.inst,
                                      !.agent_type = command.arguments.agent_type,
                                      !.constructed = r.constructed, !.ran = r.ran,
                                      !.run = r.run, !.result = r.result]
    /\ UNCHANGED <<agents, lookups, released>>

\* the loop of the innermost specialist ends: its run returns or raises and
\* the tool that called it returns its text
nest_return(loop) ==
    /\ Len(workers) > 1
    /\ \E f \in {workers[Len(workers)]} :
       \E r \in {_run(heap, f.owner, f.command.arguments, f.gate, loop)} :
          /\ heap' = r.heap
          /\ workers' = SubSeq(workers, 1, Len(workers) - 1)
          /\ call' = [Idle EXCEPT !.op = "call_agent", !.reg = f.owner,
                         !.args = <<f.command>>, !.inst = r.inst,
                         !.agent_type = f.command.arguments.agent_type,
                         !.ran = r.ran, !.run = r.run, !.result = r.result]
    /\ UNCHANGED <<agents, lookups, released>>

NextNest ==
    \/ \E command \in NestCommands, gate \in ToolGates : nest_execute_tool(command, gate)
    \/ \E loop \in Loops : nest_return(loop)

SpecNest == InitNest /\ [][NextNest]_vars

\* C38: the tool constructs no Manus object: a call for the type "manus"
\* gets the unknown-type error text. The specialists have no call_agent
\* tool, so the run of a specialist the Manus run delegated to opens no run
\* of its own: at most two runs are open, the specialists cache no agents,
\* and every object but the first is a gated specialist.
C38_NoNestedDelegation ==
    /\ Len(workers) <= 2
    /\ \A k \in DOMAIN workers : k > 1 => workers[k].owner = 1
    /\ \A i \in DOMAIN heap \ {1} :
          /\ heap[i].cls \in GatedClasses
          /\ heap[i].tool = <<>>
    /\ (call.op = "call_agent" /\ call.agent_type = "manus") =>
          /\ ~call.ran
          /\ call.result = "Error calling agent 'manus': Unknown agent type: manus"
    /\ (call.op = "execute_tool" /\ call.reg # 1 /\ call.args[1].name = "call_agent") =>
          StartsWith(call.result, "Error: ")

\* the model of a finance_lead specialist, whose run the Manus run opened,
\* asked for call_agent and got an error: no third run was opened
C38_Witness ==
    /\ Len(workers) = 2
    /\ heap[workers[2].inst].cls = "FinanceLeadAgent"
    /\ call.op = "execute_tool"
    /\ call.reg = workers[2].inst
    /\ call.args[1].name = "call_agent"
    /\ call.args[1].arguments.agent_type = "tech_lead"
    /\ Len(heap) = 2

====
